---- MODULE Spec2Model ----
(***************************************************************************)
(* A model of the ESE database parser: the cursor API of                   *)
(* lib/src/ese_parser.rs (move_row, get_column, open_table, load) and the  *)
(* pager of lib/src/parser/reader.rs (Reader::new, Reader::read and the    *)
(* 2Q page cache it drives).                                               *)
(*                                                                         *)
(* Three specifications share the module:                                  *)
(*   SpecCursor  one table of one loaded file, and the calls on its handle *)
(*   SpecPager   Reader::new followed by Reader::read calls                *)
(*   SpecLoad    EseDb::load on a parser, header validation included       *)
(* Each specification leaves the other parts' variables at their idle      *)
(* values.                                                                 *)
(***************************************************************************)
EXTENDS Integers, Sequences, FiniteSets, TLC

\* ------------------------------------------------------------------------
\* Bounds of the model
\* ------------------------------------------------------------------------
\* leaves on a table's sibling chain
MaxLeaves == 2
\* tags on one page, tag 0 included
MaxTags == 3
\* cache_size of the pager
CacheCapacity == 2
\* pages of the file, the two header pages included
NumFilePages == 5
\* load calls on one parser
MaxLoads == 2
\* the multi-value indexes asked for: 0 .. MaxMvIndex
MaxMvIndex == 2
\* open_table calls that return a handle
MaxHandles == 2

\* ------------------------------------------------------------------------
\* Names of the program
\* ------------------------------------------------------------------------
IS_ROOT == "IS_ROOT"
IS_LEAF == "IS_LEAF"
IS_PARENT == "IS_PARENT"
FLAG_IS_DEFUNCT == "FLAG_IS_DEFUNCT"

ESE_MoveFirst == "ESE_MoveFirst"
ESE_MoveLast == "ESE_MoveLast"
ESE_MoveNext == "ESE_MoveNext"
ESE_MovePrevious == "ESE_MovePrevious"
\* any other crow code (a "move to row n")
ESE_MoveTo == "ESE_MoveTo"
Crows == {ESE_MoveFirst, ESE_MoveLast, ESE_MoveNext, ESE_MovePrevious, ESE_MoveTo}

\* TLC's integers are 32 bits wide: UsizeModulus stands for 2^64, the only
\* use of a wrapped usize being its comparison with a tag count.
UsizeModulus == 2^30

VARIABLES
    \* ---- the cursor part (SpecCursor)
    pages,            \* the file: page number -> DbPage
    fdp,              \* the table's father_data_page_number
    overflow_checks,  \* the build profile, "on" (debug) or "off" (release):
                      \* "unknown" until the first usize overflow shows it
    current_page,     \* Table.current_page: <<>> is None, <<p>> is Some(p)
    page_tag_index,   \* Table.page_tag_index
    ret,              \* the last call on the handle and what it returned
    fwd,              \* the MoveFirst, MoveNext, MoveNext, ... run observed
    bwd,              \* the MoveLast, MovePrevious, ... run observed
    \* ---- the pager part (SpecPager)
    file,             \* the file on disk: headers, page size, length
    reader,           \* the Reader: <<>> before Reader::new, <<r>> after
    rd,               \* the last call on the Reader and what it returned
    passes,           \* the two passes over capacity + 1 pages observed
    \* ---- the parser part (SpecLoad)
    parser,           \* the EseParser: cache_size, reader, tables
    load_ret,         \* the last load: its result and the parser before it
    handles,          \* the handles the open_table calls returned, in order
    \* ---- the record decoder part (SpecColumn, SpecLongValue)
    leaf,             \* the leaf the cursor is on: its format and its records
    tbl_def,          \* Table.cat: the column_catalog_definition_array
    lv_tags,          \* Table.lv_tags: the long-value segments of the table
    row,              \* Table.page_tag_index: 0 while current_page is None
    lls,              \* Table.lls: the LastLoadState of the table
    col               \* the last call on the record and what it returned

cursor_vars == <<pages, fdp, overflow_checks, current_page, page_tag_index, ret, fwd, bwd>>

pager_vars == <<file, reader, rd, passes>>

load_vars == <<parser, load_ret, handles>>

column_vars == <<leaf, tbl_def, lv_tags, row, lls, col>>

vars == <<cursor_vars, pager_vars, load_vars, column_vars>>

\* ------------------------------------------------------------------------
\* The file of SpecCursor: a table tree
\* ------------------------------------------------------------------------
Tag0 == [flags |-> {}, child |-> 0]

\* the defunct flags of the data tags 1..n of one leaf
LeafTagSeqs == UNION { [1..n -> BOOLEAN] : n \in 0..(MaxTags - 1) }

LeafChains == UNION { [1..k -> LeafTagSeqs] : k \in 1..MaxLeaves }

LeafPage(chain, p, rootLeaf) ==
    [ page_number   |-> p,
      flags         |-> IF rootLeaf THEN {IS_ROOT, IS_LEAF} ELSE {IS_LEAF},
      previous_page |-> IF p = 1 THEN 0 ELSE p - 1,
      next_page     |-> IF p = Len(chain) THEN 0 ELSE p + 1,
      page_tags     |-> <<Tag0>> \o
                        [i \in 1..Len(chain[p]) |->
                           [flags |-> IF chain[p][i] THEN {FLAG_IS_DEFUNCT} ELSE {},
                            child |-> 0]] ]

\* the branch root above the leaves: tag i (i >= 1) points to leaf i
BranchPage(chain) ==
    [ page_number   |-> Len(chain) + 1,
      flags         |-> {IS_ROOT, IS_PARENT},
      previous_page |-> 0,
      next_page     |-> 0,
      page_tags     |-> <<Tag0>> \o
                        [i \in 1..Len(chain) |-> [flags |-> {}, child |-> i]] ]

TreePages(chain, rootLeaf) ==
    IF rootLeaf
    THEN [p \in 1..1 |-> LeafPage(chain, p, TRUE)]
    ELSE [p \in 1..(Len(chain) + 1) |->
             IF p <= Len(chain) THEN LeafPage(chain, p, FALSE) ELSE BranchPage(chain)]

\* ------------------------------------------------------------------------
\* Pages and tags
\* ------------------------------------------------------------------------
\* page_tags.len()
NTags(p) == Len(p.page_tags)

\* page_tags[i], i counted from 0 as in the source
TagAt(p, i) == p.page_tags[i + 1]

IsDefunct(p, i) == FLAG_IS_DEFUNCT \in TagAt(p, i).flags

\* jet::DbPage::new(reader, page_number): <<>> when the page cannot be read
DbPageNew(n) == IF n \in DOMAIN pages THEN <<pages[n]>> ELSE <<>>

RECURSIVE find_first_leaf_page(_)
find_first_leaf_page(n) ==
    LET pg == DbPageNew(n) IN
    IF pg = <<>> THEN [res |-> "err", page |-> 0]
    ELSE IF IS_LEAF \in pg[1].flags THEN [res |-> "ok", page |-> n]
    ELSE IF NTags(pg[1]) < 2 THEN [res |-> "panic", page |-> 0]
    ELSE find_first_leaf_page(TagAt(pg[1], 1).child)

\* ------------------------------------------------------------------------
\* The cursor: ese_parser.rs
\* ------------------------------------------------------------------------
\* A table value t is [father_data_page_number, current_page,
\* page_tag_index]; an operation returns
\* [res, t]: res is "true", "false", "err" (Err(..)) or "panic" (the process
\* aborts), t the table as the call left it.

\* Table::page(): unwrap of current_page; callers test IsNone first
page(t) == t.current_page[1]

IsNone(t) == t.current_page = <<>>

WrapUsize(x) == IF x < 0 THEN x + UsizeModulus ELSE x

\* a move_next_row without the test of FLAG_IS_DEFUNCT
SkipDefunctForward_NoSkip(p, i) == i

\* ese_parser.rs 103-106: the first index >= i that is past the tags or not defunct
RECURSIVE SkipDefunctForward(_, _)
SkipDefunctForward(p, i) ==
    IF i < NTags(p) /\ IsDefunct(p, i) THEN SkipDefunctForward(p, i + 1) ELSE i

\* ese_parser.rs 102-121: the loop of move_next_row
RECURSIVE NextLoop(_, _)
NextLoop(t, i) ==
    LET j == SkipDefunctForward(page(t), i) IN
    IF j < NTags(page(t))
    THEN [res |-> "true", t |-> [t EXCEPT !.page_tag_index = j]]
    ELSE IF page(t).next_page # 0
         THEN LET pg == DbPageNew(page(t).next_page) IN
              IF pg = <<>> THEN [res |-> "err", t |-> t]
              ELSE NextLoop([t EXCEPT !.current_page = pg], 1)
         ELSE [res |-> "false", t |-> t]

move_next_row(t, crow) ==
    IF crow = ESE_MoveFirst
    THEN LET first_leaf_page == find_first_leaf_page(t.father_data_page_number) IN
         IF first_leaf_page.res # "ok" THEN [res |-> first_leaf_page.res, t |-> t]
         ELSE LET reload == IsNone(t) \/ page(t).page_number # first_leaf_page.page
                  pg == DbPageNew(first_leaf_page.page)
                  t1 == IF reload THEN [t EXCEPT !.current_page = pg] ELSE t
              IN  IF reload /\ pg = <<>> THEN [res |-> "err", t |-> t]
                  ELSE IF NTags(page(t1)) < 2
                       THEN [res |-> "false", t |-> t1]      \* "empty table"
                       ELSE NextLoop(t1, 1)
    ELSE IF IsNone(t) THEN [res |-> "panic", t |-> t]        \* unwrap of None
         ELSE NextLoop(t, t.page_tag_index + 1)

\* ese_parser.rs 130-133: MoveLast follows next_page to the last leaf
RECURSIVE LastLeaf(_)
LastLeaf(t) ==
    IF page(t).next_page # 0
    THEN LET pg == DbPageNew(page(t).next_page) IN
         IF pg = <<>> THEN [res |-> "err", t |-> t]
         ELSE LastLeaf([t EXCEPT !.current_page = pg])
    ELSE [res |-> "ok", t |-> t]

\* ese_parser.rs 141-143: indexing page_tags[i] with i >= len panics
RECURSIVE SkipDefunctBackward(_, _)
SkipDefunctBackward(p, i) ==
    IF i > 0
    THEN IF i >= NTags(p) THEN -1
         ELSE IF IsDefunct(p, i) THEN SkipDefunctBackward(p, i - 1) ELSE i
    ELSE i

\* ese_parser.rs 140-158: the loop of move_previous_row
RECURSIVE PreviousLoop(_, _)
PreviousLoop(t, i) ==
    LET j == SkipDefunctBackward(page(t), i) IN
    IF j < 0 THEN [res |-> "panic", t |-> t]                 \* index out of bounds
    ELSE IF j > 0
    THEN [res |-> "true", t |-> [t EXCEPT !.page_tag_index = j]]
    ELSE IF page(t).previous_page # 0
         THEN LET pg == DbPageNew(page(t).previous_page) IN
              IF pg = <<>> THEN [res |-> "err", t |-> t]
              ELSE PreviousLoop([t EXCEPT !.current_page = pg], NTags(pg[1]) - 1)
         ELSE [res |-> "false", t |-> t]

move_previous_row(t, crow, checks) ==
    \* line 128: page_tag_index - 1 on a usize
    IF t.page_tag_index = 0 /\ checks THEN [res |-> "panic", t |-> t]
    ELSE LET i == WrapUsize(t.page_tag_index - 1) IN
         IF IsNone(t) THEN [res |-> "panic", t |-> t]        \* unwrap of None
         ELSE IF crow = ESE_MoveLast
              THEN LET last == LastLeaf(t) IN
                   IF last.res # "ok" THEN last
                   ELSE IF NTags(page(last.t)) < 2
                        THEN [res |-> "false", t |-> last.t] \* "empty table"
                        ELSE PreviousLoop(last.t, NTags(page(last.t)) - 1)
              ELSE PreviousLoop(t, i)

move_row_helper(t, crow, checks) ==
    IF crow \in {ESE_MoveFirst, ESE_MoveNext} THEN move_next_row(t, crow)
    ELSE IF crow \in {ESE_MoveLast, ESE_MovePrevious} THEN move_previous_row(t, crow, checks)
    ELSE [res |-> "err", t |-> t]

\* EseDb::move_row: an Err is printed and becomes false
move_row(t, crow, checks) ==
    LET r == move_row_helper(t, crow, checks) IN
    IF r.res = "err" THEN [res |-> "false", t |-> r.t] ELSE r

\* reader.rs 514-529 of load_data: the checks before the record is decoded.
\* The value of a decoded record is named by the row it is read from.
load_data(db_page, tag_index) ==
    IF IS_LEAF \notin db_page.flags THEN [res |-> "err", row |-> <<>>]
    ELSE IF tag_index = 0 \/ tag_index >= NTags(db_page) THEN [res |-> "err", row |-> <<>>]
    ELSE [res |-> "ok", row |-> <<db_page.page_number, tag_index>>]

get_column_dyn_helper(t) ==
    IF IsNone(t) THEN [res |-> "err", row |-> <<>>]
    ELSE load_data(page(t), t.page_tag_index)

\* EseDb::open_table: the table is looked up by name (found tells whether
\* get_table_by_name finds it), then MoveFirst, whose boolean is dropped and
\* whose Err is returned
open_table(t, found) ==
    IF ~found THEN [res |-> "err", t |-> t]               \* "can't find table name"
    ELSE LET r == move_row_helper(t, ESE_MoveFirst, FALSE) IN
         IF r.res \in {"true", "false"} THEN [res |-> "ok", t |-> r.t] ELSE r


\* ------------------------------------------------------------------------
\* 32-bit words as <<high half, low half>> (TLC's integers are 32 bits wide)
\* ------------------------------------------------------------------------
Half == 65536

ToWord(n) == <<n \div Half, n % Half>>

RECURSIVE XorBits(_, _)
XorBits(a, b) ==
    IF a = 0 THEN b
    ELSE IF b = 0 THEN a
    ELSE ((a + b) % 2) + 2 * XorBits(a \div 2, b \div 2)

XorWord(x, y) == <<XorBits(x[1], y[1]), XorBits(x[2], y[2])>>

\* ------------------------------------------------------------------------
\* The file header: reader.rs 40-86
\* ------------------------------------------------------------------------
\* 0x89abcdef
ESEDB_FILE_SIGNATURE == <<35243, 52719>>
\* reader.rs 51: the seed of the fold, 0x89abcdef
ChecksumSeed == <<35243, 52719>>
\* reader.rs 81: 0x620
SupportedFormatVersion == 1568
\* reader.rs 96: 2 * 1024, "just to read header"
ProvisionalPageSize == 2048
\* mem::size_of::<ese_db::FileHeader>()
SizeOfFileHeader == 668

\* A header is [checksum, signature, format_version, format_revision,
\* page_size, rest]: rest is the xor of the words of the header that the
\* model does not name.
calc_crc32(h) ==
    XorWord(XorWord(XorWord(XorWord(XorWord(ChecksumSeed, h.signature),
                                            ToWord(h.format_version)),
                                    ToWord(h.format_revision)),
                            ToWord(h.page_size)),
            h.rest)

ZeroHeader ==
    [checksum |-> <<0, 0>>, signature |-> <<0, 0>>, format_version |-> 0,
     format_revision |-> 0, page_size |-> 0, rest |-> <<0, 0>>]

\* the file is npages pages of page_size bytes: page 0 holds the primary
\* header, page 1 the mirror, and the bytes elsewhere do not hold a header
FileLen(f) == f.npages * f.page_size

\* read_struct::<FileHeader> of the bytes [off, off + SizeOfFileHeader)
HeaderAt(f, off) ==
    IF off = 0 THEN f.primary
    ELSE IF off = f.page_size THEN f.mirror
    ELSE ZeroHeader

\* ------------------------------------------------------------------------
\* cache_2q::Cache as Reader uses it: reader.rs 95, 108, 116, 123, 136
\* ------------------------------------------------------------------------
\* recent and frequent are queues of [key, val], oldest first; ghost holds
\* the keys evicted from recent, newest first.
CacheNew(size) ==
    [recent |-> <<>>, frequent |-> <<>>, ghost |-> <<>>,
     max_recent |-> size, max_frequent |-> size, max_ghost |-> 4 * size]

QKeys(q) == {q[i].key : i \in DOMAIN q}

QRemove(q, k) == SelectSeq(q, LAMBDA e : e.key # k)

QFind(q, k) == (CHOOSE i \in DOMAIN q : q[i].key = k)

CacheContainsKey(c, k) == k \in QKeys(c.recent) \cup QKeys(c.frequent)

CacheClear(c) == [c EXCEPT !.recent = <<>>, !.frequent = <<>>, !.ghost = <<>>]

CacheInsert(c, k, v) ==
    IF k \in QKeys(c.recent)
    THEN [c EXCEPT !.recent[QFind(c.recent, k)].val = v]
    ELSE IF k \in QKeys(c.frequent)
    THEN [c EXCEPT !.frequent[QFind(c.frequent, k)].val = v]
    ELSE IF \E i \in DOMAIN c.ghost : c.ghost[i] = k
    THEN \* a remembered key goes to the frequent queue
         LET ghost1 == SelectSeq(c.ghost, LAMBDA g : g # k)
             freq1 == IF Len(c.frequent) + 1 > c.max_frequent
                      THEN Tail(c.frequent) ELSE c.frequent
         IN  [c EXCEPT !.ghost = ghost1,
                       !.frequent = Append(freq1, [key |-> k, val |-> v])]
    ELSE \* a new key goes to the recent queue, whose oldest key is remembered
         IF Len(c.recent) + 1 > c.max_recent
         THEN LET old_key == Head(c.recent).key
                  ghost1 == IF Len(c.ghost) + 1 > c.max_ghost
                            THEN SubSeq(c.ghost, 1, Len(c.ghost) - 1) ELSE c.ghost
              IN  [c EXCEPT !.recent = Append(Tail(c.recent), [key |-> k, val |-> v]),
                            !.ghost = <<old_key>> \o ghost1]
         ELSE [c EXCEPT !.recent = Append(c.recent, [key |-> k, val |-> v])]

\* get: <<>> or <<value>>, and the cache with the entry made the newest of
\* its queue (refresh tells whether a hit in the recent queue reorders it)
CacheGet(c, k, refresh) ==
    IF k \in QKeys(c.recent)
    THEN LET e == c.recent[QFind(c.recent, k)] IN
         [val |-> <<e.val>>,
          cache |-> IF refresh THEN [c EXCEPT !.recent = Append(QRemove(@, k), e)] ELSE c]
    ELSE IF k \in QKeys(c.frequent)
    THEN LET e == c.frequent[QFind(c.frequent, k)] IN
         [val |-> <<e.val>>, cache |-> [c EXCEPT !.frequent = Append(QRemove(@, k), e)]]
    ELSE [val |-> <<>>, cache |-> c]


\* ------------------------------------------------------------------------
\* Reader: reader.rs 21-28, 88-175
\* ------------------------------------------------------------------------
\* A page buffer is kept as the range of the file it was filled from,
\* [off, size], and the bytes a read returns as the range [off, len]: two
\* ranges hold the same bytes when they are the same range.

\* a cache with room for one more page in each queue
NewCache_OneMore(cache_size) == CacheNew(cache_size + 1)

\* reader.rs 95
NewCache(cache_size) == CacheNew(cache_size)

\* reader.rs 136-146: the copy out of the page that get returned
ReadCached(r, g, offset, len, fetched) ==
    IF g.val = <<>>
    THEN \* Cache failed, page number not found
         [res |-> "err", reader |-> [r EXCEPT !.cache = g.cache], data |-> <<>>,
          fetched |-> fetched]
    ELSE IF (offset % r.page_size) + len > g.val[1].size
    THEN \* the slice runs past the page buffer
         [res |-> "panic", reader |-> r, data |-> <<>>, fetched |-> fetched]
    ELSE [res |-> "ok", reader |-> [r EXCEPT !.cache = g.cache],
          data |-> <<[off |-> g.val[1].off + (offset % r.page_size), len |-> len]>>,
          fetched |-> fetched]

\* reader.rs 117-134: the page of pg_no read from the disk into the cache
Fetched(r, pg_no) ==
    CacheInsert(r.cache, pg_no, [off |-> pg_no * r.page_size, size |-> r.page_size])

\* a read that goes to the disk whether the page is cached or not
ReaderRead_AlwaysFetch(r, f, offset, len, refresh) ==
    IF (offset \div r.page_size) * r.page_size + r.page_size > FileLen(f)
    THEN [res |-> "err", reader |-> r, data |-> <<>>, fetched |-> TRUE]
    ELSE ReadCached(r, CacheGet(Fetched(r, offset \div r.page_size),
                                offset \div r.page_size, refresh),
                    offset, len, TRUE)

\* Reader::read: [res, reader, data, fetched]
ReaderRead(r, f, offset, len, refresh) ==
    IF CacheContainsKey(r.cache, offset \div r.page_size)
    THEN ReadCached(r, CacheGet(r.cache, offset \div r.page_size, refresh),
                    offset, len, FALSE)
    ELSE IF (offset \div r.page_size) * r.page_size + r.page_size > FileLen(f)
    THEN \* read_exact failed
         [res |-> "err", reader |-> r, data |-> <<>>, fetched |-> TRUE]
    ELSE ReadCached(r, CacheGet(Fetched(r, offset \div r.page_size),
                                offset \div r.page_size, refresh),
                    offset, len, TRUE)

\* reader.rs 62-85: the primary header h against the backup header b
CheckBackup(h, b, rdr) ==
    LET rev == IF h.format_revision = 0 THEN b.format_revision ELSE h.format_revision
        ps == IF h.page_size = 0 THEN b.page_size ELSE h.page_size
        h1 == [h EXCEPT !.format_revision = rev, !.page_size = ps]
    IN  IF rev # b.format_revision
        THEN \* mismatch in format revision
             [res |-> "err", hdr |-> h1, reader |-> rdr]
        ELSE IF ps # b.page_size
        THEN \* mismatch in page size
             [res |-> "err", hdr |-> h1, reader |-> rdr]
        ELSE IF h.format_version # SupportedFormatVersion
        THEN \* unsupported format version
             [res |-> "err", hdr |-> h1, reader |-> rdr]
        ELSE [res |-> "ok", hdr |-> h1, reader |-> rdr]

\* reader.rs 60: r2 is the read of the backup header
ReadBackup(h, r2, f) ==
    IF r2.res # "ok" THEN [res |-> r2.res, hdr |-> h, reader |-> r2.reader]
    ELSE CheckBackup(h, HeaderAt(f, r2.data[1].off), r2.reader)

\* the checks of the primary header without the one on the signature
CheckPrimary_AnySignature(h, rdr, f, refresh) ==
    IF h.checksum # calc_crc32(h)
    THEN [res |-> "err", hdr |-> h, reader |-> rdr]
    ELSE ReadBackup(h, ReaderRead(rdr, f, h.page_size, SizeOfFileHeader, refresh), f)

\* reader.rs 45-60: the primary header h, then the backup header, which is
\* read at the page size the primary states
CheckPrimary(h, rdr, f, refresh) ==
    IF h.signature # ESEDB_FILE_SIGNATURE
    THEN \* bad file_header.signature
         [res |-> "err", hdr |-> h, reader |-> rdr]
    ELSE IF h.checksum # calc_crc32(h)
    THEN \* wrong checksum
         [res |-> "err", hdr |-> h, reader |-> rdr]
    ELSE ReadBackup(h, ReaderRead(rdr, f, h.page_size, SizeOfFileHeader, refresh), f)

\* reader.rs 42-43: r1 is the read of the primary header
ReadPrimary(r1, f, refresh) ==
    IF r1.res # "ok" THEN [res |-> r1.res, hdr |-> ZeroHeader, reader |-> r1.reader]
    ELSE CheckPrimary(HeaderAt(f, r1.data[1].off), r1.reader, f, refresh)

\* Reader::load_db_file_header: [res, hdr, reader]
load_db_file_header(r, f, refresh) ==
    ReadPrimary(ReaderRead(r, f, 0, SizeOfFileHeader, refresh), f, refresh)

ProvisionalReader(cache_size) ==
    [cache |-> NewCache(cache_size), page_size |-> ProvisionalPageSize,
     format_version |-> 0, format_revision |-> 0, last_page_number |-> 0]

\* the Reader set up with the pages cached while the headers were read
SetUp_NoClear(l) ==
    IF l.res # "ok" THEN [res |-> l.res, reader |-> <<>>]
    ELSE IF l.hdr.page_size = 0 THEN [res |-> "panic", reader |-> <<>>]
    ELSE [res |-> "ok",
          reader |-> <<[cache |-> l.reader.cache,
                        page_size |-> l.hdr.page_size,
                        format_version |-> l.hdr.format_version,
                        format_revision |-> l.hdr.format_revision,
                        last_page_number |-> (l.hdr.page_size * 2) \div l.hdr.page_size]>>]

\* reader.rs 102-110: l is what load_db_file_header returned
SetUp(l) ==
    IF l.res # "ok" THEN [res |-> l.res, reader |-> <<>>]
    ELSE IF l.hdr.page_size = 0
    THEN \* reader.rs 106 divides by the page size
         [res |-> "panic", reader |-> <<>>]
    ELSE [res |-> "ok",
          reader |-> <<[cache |-> CacheClear(l.reader.cache),
                        page_size |-> l.hdr.page_size,
                        format_version |-> l.hdr.format_version,
                        format_revision |-> l.hdr.format_revision,
                        last_page_number |-> (l.hdr.page_size * 2) \div l.hdr.page_size]>>]

\* Reader::new: [res, reader], reader <<>> unless res is "ok"
ReaderNew(f, cache_size, refresh) ==
    SetUp(load_db_file_header(ProvisionalReader(cache_size), f, refresh))

\* Reader::load_db
load_db(f, cache_size, refresh) == ReaderNew(f, cache_size, refresh)


\* ------------------------------------------------------------------------
\* Files
\* ------------------------------------------------------------------------
\* a header with the given fields and a checksum that matches them or not
MkHeader(sig, ver, rev, ps, rest, sum_ok) ==
    LET h0 == [checksum |-> <<0, 0>>, signature |-> sig, format_version |-> ver,
               format_revision |-> rev, page_size |-> ps, rest |-> rest]
    IN  [h0 EXCEPT !.checksum = IF sum_ok THEN calc_crc32(h0)
                                ELSE XorWord(calc_crc32(h0), <<0, 1>>)]


PageSizes == {4096, 8192}

\* the page size of the files a Reader is driven on
PagerPageSizes == {4096}

GoodHeader(rev, ps) ==
    MkHeader(ESEDB_FILE_SIGNATURE, SupportedFormatVersion, rev, ps, <<7, 11>>, TRUE)

\* jet::FixedPageNumber::Catalog
CatalogPageNumber == 4

\* The catalog of a file: the flags of page 4, the items of the data tags of
\* its leaves in the order of the leaf chain, and the leaves of the chain,
\* which next_page links from the first on: leaf k is [page_number, flags,
\* previous_page, last], last the place of the last item it holds. A root
\* with IS_PARENT names the first leaf in its tag 1; a root without is the
\* one page of the chain.
Catalog(flags, items, leaves) == [flags |-> flags, items |-> items, leaves |-> leaves]

CatalogLeaf(page_number, flags, previous_page, last) ==
    [page_number |-> page_number, flags |-> flags, previous_page |-> previous_page,
     last |-> last]

\* a catalog of one leaf: the root itself, or page 5 under a branch root
OneLeaf(flags, items) ==
    Catalog(flags, items,
            << IF IS_PARENT \in flags
               THEN CatalogLeaf(CatalogPageNumber + 1, {IS_LEAF}, 0, Len(items))
               ELSE CatalogLeaf(CatalogPageNumber, flags, 0, Len(items)) >>)

EmptyCatalog == OneLeaf({IS_ROOT, IS_LEAF}, <<>>)

NoFile == [primary |-> ZeroHeader, mirror |-> ZeroHeader, page_size |-> 0, npages |-> 0,
           catalog |-> EmptyCatalog]

PagerFiles ==
    { [primary |-> GoodHeader(17, ps), mirror |-> GoodHeader(17, ps),
       page_size |-> ps, npages |-> NumFilePages, catalog |-> EmptyCatalog] :
        ps \in PagerPageSizes }

NoRead == [op |-> "none", res |-> "none", offset |-> 0, len |-> 0, data |-> <<>>,
           fetched |-> FALSE]

\* The passes observed on a Reader: first holds the distinct pages read since
\* Reader::new, one read each; once there are CacheCapacity + 1 of them,
\* second holds, for the same pages read again in the same order, whether
\* the read went to the disk.
PassesOff == [st |-> "off", first |-> <<>>, second |-> <<>>]

PassesStart == [st |-> "pass1", first |-> <<>>, second |-> <<>>]

SeqElems(q) == {q[i] : i \in DOMAIN q}

ObservePass(ps, res, pg_no, fetched) ==
    IF res # "ok" THEN PassesOff
    ELSE IF ps.st = "pass1"
    THEN IF pg_no \in SeqElems(ps.first) THEN PassesOff
         ELSE IF Len(ps.first) = CacheCapacity
         THEN [ps EXCEPT !.st = "pass2", !.first = Append(@, pg_no)]
         ELSE [ps EXCEPT !.first = Append(@, pg_no)]
    ELSE IF ps.st = "pass2"
    THEN IF pg_no # ps.first[Len(ps.second) + 1] THEN PassesOff
         ELSE IF Len(ps.second) = CacheCapacity
         THEN [ps EXCEPT !.st = "done", !.second = Append(@, fetched)]
         ELSE [ps EXCEPT !.second = Append(@, fetched)]
    ELSE PassesOff


\* ------------------------------------------------------------------------
\* load_catalog: reader.rs 295-374
\* ------------------------------------------------------------------------
CatalogTypes == {"Table", "Column", "Index", "LongValue"}

\* The items of a catalog: one per data tag of its leaves, in the order of
\* the leaf chain, with the catalog type of the entry, whether its tag is
\* defunct, and its father_data_page_number.
CatalogEntry(cat_type, defunct, father_data_page_number) ==
    [cat_type |-> cat_type, defunct |-> defunct,
     father_data_page_number |-> father_data_page_number]

\* live entries of the given types, entry i of the tree of page 10 + i
LiveEntries(types) == [i \in DOMAIN types |-> CatalogEntry(types[i], FALSE, 10 + i)]

\* load_catalog_item: the name of an entry is its place in the catalog
load_catalog_item(items, i) ==
    [cat_type |-> items[i].cat_type, name |-> i,
     father_data_page_number |-> items[i].father_data_page_number]

NoTableDef == [table |-> <<>>, columns |-> <<>>, long_value |-> <<>>]

\* the loop of reader.rs 338-364 from item i on: [res, defs, table_def]
RECURSIVE CatalogItems(_, _, _, _)
CatalogItems(items, i, res, table_def) ==
    IF i > Len(items) THEN [res |-> "ok", defs |-> res, table_def |-> table_def]
    ELSE IF items[i].defunct THEN CatalogItems(items, i + 1, res, table_def)
    ELSE LET cat_item == load_catalog_item(items, i) IN
         IF cat_item.cat_type = "Table"
         THEN IF table_def.table # <<>>
              THEN CatalogItems(items, i + 1, Append(res, table_def),
                                [NoTableDef EXCEPT !.table = <<cat_item>>])
              ELSE CatalogItems(items, i + 1, res,
                                [table_def EXCEPT !.table = <<cat_item>>])
         ELSE IF cat_item.cat_type = "Column"
         THEN CatalogItems(items, i + 1, res,
                           [table_def EXCEPT !.columns = Append(@, cat_item)])
         ELSE IF cat_item.cat_type = "LongValue"
         THEN IF table_def.long_value # <<>>
              THEN \* long-value catalog definition duplicate?
                   [res |-> "err", defs |-> res, table_def |-> table_def]
              ELSE CatalogItems(items, i + 1, res,
                                [table_def EXCEPT !.long_value = <<cat_item>>])
         ELSE CatalogItems(items, i + 1, res, table_def)

\* the walk without the test of reader.rs 329-332
WrongPreviousPage_Unchecked(previous_page, prev_page_number) == FALSE

\* reader.rs 329, 921: the page does not name the page visited before it
WrongPreviousPage(previous_page, prev_page_number) ==
    previous_page # 0 /\ prev_page_number # previous_page

\* the place of the first item of leaf k
FirstPlace(c, k) == IF k = 1 THEN 1 ELSE c.leaves[k - 1].last + 1

\* reader.rs 338-364 on the tags of leaf k, after the pages before it left
\* res and table_def
LeafItems(c, k, res, table_def) ==
    CatalogItems(SubSeq(c.items, 1, c.leaves[k].last), FirstPlace(c, k), res, table_def)

\* the while loop of reader.rs 325-367 from leaf k of the chain on
RECURSIVE CatalogPages(_, _, _, _)
AfterLeaf(c, k, l) ==
    IF l.res # "ok" THEN l
    ELSE CatalogPages(c, k + 1, c.leaves[k].page_number, l)

CatalogPages(c, k, prev_page_number, l) ==
    IF k > Len(c.leaves) THEN l                               \* page_number = 0
    ELSE IF WrongPreviousPage(c.leaves[k].previous_page, prev_page_number)
    THEN [res |-> "err", defs |-> <<>>, table_def |-> NoTableDef]
    ELSE IF IS_LEAF \notin c.leaves[k].flags
    THEN [res |-> "err", defs |-> <<>>, table_def |-> NoTableDef]
    ELSE AfterLeaf(c, k, LeafItems(c, k, l.defs, l.table_def))

\* [res, defs]; the pages the walk leaves in the cache are not followed
load_catalog(f) ==
    IF IS_PARENT \notin f.catalog.flags /\ IS_LEAF \notin f.catalog.flags
    THEN [res |-> "err", defs |-> <<>>]
    ELSE LET l == CatalogPages(f.catalog, 1, CatalogPageNumber,
                               [res |-> "ok", defs |-> <<>>, table_def |-> NoTableDef]) IN
         IF l.res # "ok" THEN [res |-> "err", defs |-> <<>>]
         ELSE IF l.table_def.table # <<>>
         THEN [res |-> "ok", defs |-> Append(l.defs, l.table_def)]
         ELSE [res |-> "ok", defs |-> l.defs]

\* ------------------------------------------------------------------------
\* EseParser: ese_parser.rs 18-22, 189-229
\* ------------------------------------------------------------------------
\* EseParser::init(cache_size)
init(cache_size) == [cache_size |-> cache_size, reader |-> <<>>, tables |-> <<>>]

\* the Table of ese_parser.rs 210
NewTable(def) == [cat |-> def, lv_tags |-> <<>>, current_page |-> <<>>, page_tag_index |-> 0]

\* ese_parser.rs 203-215: o is the opened Reader, cat the loaded catalog
Install(p, o, cat) ==
    IF cat.res # "ok" THEN [res |-> "err", open |-> o, parser |-> p]
    ELSE [res |-> "ok", open |-> o,
          parser |-> [p EXCEPT !.reader = o.reader,
                               !.tables = @ \o [i \in DOMAIN cat.defs |->
                                                   NewTable(cat.defs[i])]]]

\* ese_parser.rs 197-206: o is what Reader::load_db returned
Loaded(p, o, f) ==
    IF o.res # "ok" THEN [res |-> o.res, open |-> o, parser |-> p]
    ELSE Install(p, o, load_catalog(f))

\* EseDb::load: [res, open, parser]; open is what Reader::load_db returned
load(p, f) == Loaded(p, load_db(f, p.cache_size, TRUE), f)

\* EseDb::get_tables
get_tables(p) == [i \in DOMAIN p.tables |-> p.tables[i].cat.table[1].name]

NoParser == init(0)

NoLoad == [op |-> "none", res |-> "none", open |-> [res |-> "none", reader |-> <<>>],
           before |-> NoParser, n |-> 0]


\* ------------------------------------------------------------------------
\* load_lv_data: reader.rs 973-995
\* ------------------------------------------------------------------------
\* a byte of the file is named by its position: the size bytes at offset
FileBytes(offset, size) == [k \in 1..size |-> offset + k - 1]

\* the scan without the restart of reader.rs 984
RECURSIVE LvScan_NoRestart(_, _, _, _)
LvScan_NoRestart(tags, long_value_key, res, i) ==
    IF i > Len(tags) THEN [hang |-> FALSE, data |-> res]
    ELSE IF long_value_key = tags[i].key /\ Len(res) = tags[i].seg_offset
    THEN LvScan_NoRestart(tags, long_value_key,
                          res \o FileBytes(tags[i].offset, tags[i].size), i + 1)
    ELSE LvScan_NoRestart(tags, long_value_key, res, i + 1)

\* the while loop of reader.rs 980-988 from index i on, res the bytes
\* appended so far: [hang, data]. A matching segment of size 0 leaves res
\* as it was and restarts the scan, which then matches it again, forever.
RECURSIVE LvScan(_, _, _, _)
LvScan(tags, long_value_key, res, i) ==
    IF i > Len(tags) THEN [hang |-> FALSE, data |-> res]
    ELSE IF long_value_key = tags[i].key /\ Len(res) = tags[i].seg_offset
    THEN IF tags[i].size = 0 THEN [hang |-> TRUE, data |-> res]
         ELSE LvScan(tags, long_value_key,
                     res \o FileBytes(tags[i].offset, tags[i].size), 1)
    ELSE LvScan(tags, long_value_key, res, i + 1)

\* reader.rs 990-994 on what the scan left
LvResult(s) ==
    IF s.hang THEN [res |-> "hang", data |-> <<>>]
    ELSE IF Len(s.data) > 0 THEN [res |-> "ok", data |-> s.data]
    ELSE \* LV key not found
         [res |-> "err", data |-> <<>>]

load_lv_data(tags, long_value_key) == LvResult(LvScan(tags, long_value_key, <<>>, 1))

\* ------------------------------------------------------------------------
\* The record of a data tag and its decoder: reader.rs 531-791
\* ------------------------------------------------------------------------
\* size_of::<ese_db::DataDefinitionHeader>(): last_fixed_size_data_type,
\* last_variable_size_data_type, variable_size_data_types_offset
SizeOfDataDefinitionHeader == 4

\* jet::TaggedDataTypeFlag
COMPRESSED == 2
LONG_VALUE == 4
MULTI_VALUE == 8
MULTI_VALUE_OFFSET == 16

\* dtf.intersects(flag)
Intersects(data_type_flags, flag) == (data_type_flags \div flag) % 2 = 1

\* The reads of the record: offsets count from offset_ddh, and a record is
\* the sequence of its bytes from there. No read of the decoder leaves the
\* records of this model; a byte past the end would read as 0.
U8(rec, off) == IF (off + 1) \in DOMAIN rec THEN rec[off + 1] ELSE 0

U16(rec, off) == U8(rec, off) + 256 * U8(rec, off + 1)

U32(rec, off) == U16(rec, off) + 65536 * U16(rec, off + 2)

read_bytes(rec, off, size) == [k \in 1..size |-> U8(rec, off + k - 1)]

\* the decompress of the container's stream decoder is outside the
\* repository: some function of the stored bytes, here their doubling
decompress(v) == v \o v

\* ddh
last_fixed_size_data_type(rec) == U8(rec, 0)

last_variable_size_data_type(rec) == U8(rec, 1)

variable_size_data_types_offset(rec) == U16(rec, 2)

\* reader.rs 567
fixed_data_bits_mask_size(rec) == (last_fixed_size_data_type(rec) + 7) \div 8

\* reader.rs 583-586
number_of_variable_size_data_types(rec) ==
    IF last_variable_size_data_type(rec) > 127
    THEN last_variable_size_data_type(rec) - 127 ELSE 0

\* The format of the file as the Reader holds it: fmt is [format_version,
\* format_revision, extended], extended being format_revision >=
\* EXTENDED_PAGE_HEADER and page_size >= 16384 (reader.rs 562).
Format(rev, extended) ==
    [format_version |-> SupportedFormatVersion, format_revision |-> rev,
     extended |-> extended]

\* reader.rs 556-559
tagged_data_types_format(fmt) ==
    IF fmt.format_version = SupportedFormatVersion /\ fmt.format_revision <= 2
    THEN "Linear" ELSE "Index"

\* reader.rs 561-564
tagged_data_type_offset_bitmask(fmt) == IF fmt.extended THEN 32768 ELSE 16384

\* the variables of the walk before its first column: reader.rs 533-591.
\* j is the index of the column the walk is at, from 1.
WalkInit(rec) ==
    [j |-> 1,
     offset |-> SizeOfDataDefinitionHeader,
     tagged_data_type_identifier |-> 0,
     tagged_data_types_offset |-> 0,
     tagged_data_type_offset |-> 0,
     tagged_data_type_offset_data_size |-> 0,
     remaining_definition_data_size |-> 0,
     previous_variable_size_data_type_size |-> 0,
     current_variable_size_data_type |-> 127,
     variable_size_data_type_offset |-> variable_size_data_types_offset(rec),
     variable_size_data_type_value_offset |->
         variable_size_data_types_offset(rec)
             + 2 * number_of_variable_size_data_types(rec)]

\* what one column of the walk leaves: a return of load_data, or the
\* variables of the walk after the column
Return(res, val) == [done |-> TRUE, res |-> res, val |-> val, w |-> <<>>]

Continue(w) == [done |-> FALSE, res |-> "none", val |-> <<>>, w |-> <<w>>]

\* reader.rs 598: bit j % 8 of byte j / 8 of the mask, j the index of the
\* column in the array, from 0; the mask ends where the variable sizes begin
FixedBit(rec, j0) ==
    (U8(rec, variable_size_data_types_offset(rec) - fixed_data_bits_mask_size(rec)
                 + (j0 \div 8)) \div (2 ^ (j0 % 8))) % 2

\* reader.rs 594-609
FixedColumn(rec, c, j0, column_id, w) ==
    IF c.identifier <= last_fixed_size_data_type(rec)
    THEN IF c.identifier = column_id
         THEN IF fixed_data_bits_mask_size(rec) > 0
                 /\ (j0 \div 8) >= fixed_data_bits_mask_size(rec)
              THEN Return("panic", <<>>)
              ELSE IF fixed_data_bits_mask_size(rec) > 0 /\ FixedBit(rec, j0) > 0
              THEN \* empty value
                   Return("ok", <<>>)
              ELSE Return("ok", <<read_bytes(rec, w.offset, c.size)>>)
         ELSE Continue([w EXCEPT !.offset = @ + c.size])
    ELSE IF c.identifier = column_id
    THEN \* no value in tag
         Return("ok", <<>>)
    ELSE Continue(w)

\* reader.rs 612-632: the while loop, and the break at its end
RECURSIVE VariableLoop(_, _, _, _)
VariableBreak(rec, c, column_id, w) ==
    IF w.current_variable_size_data_type >= last_variable_size_data_type(rec)
    THEN Continue(w)
    ELSE VariableLoop(rec, c, column_id, w)

\* reader.rs 616-628: size is the variable_size_data_type_size just read, w1
\* the variables after reader.rs 614-615
VariableEntry(rec, c, column_id, w1, size) ==
    IF w1.current_variable_size_data_type = c.identifier /\ size < 32768
    THEN IF c.identifier = column_id
         THEN Return("ok", <<read_bytes(rec, w1.variable_size_data_type_value_offset,
                                        size - w1.previous_variable_size_data_type_size)>>)
         ELSE VariableBreak(rec, c, column_id,
                  [w1 EXCEPT !.variable_size_data_type_value_offset =
                                 @ + size - w1.previous_variable_size_data_type_size,
                             !.previous_variable_size_data_type_size = size])
    ELSE VariableBreak(rec, c, column_id, w1)

VariableLoop(rec, c, column_id, w) ==
    IF w.current_variable_size_data_type < c.identifier
    THEN VariableEntry(rec, c, column_id,
             [w EXCEPT !.variable_size_data_type_offset = @ + 2,
                       !.current_variable_size_data_type = @ + 1],
             U16(rec, w.variable_size_data_type_offset))
    ELSE Continue(w)

\* reader.rs 639-659: the first tagged column of the walk reads the first
\* pair of the index
TaggedInit(rec, w) ==
    IF w.tagged_data_types_offset # 0 THEN Continue(w)
    ELSE IF Len(rec) - w.variable_size_data_type_value_offset > 0
    THEN IF U16(rec, w.variable_size_data_type_value_offset + 2) = 0
         THEN \* tagged_data_type_offset == 0
              Return("err", <<>>)
         ELSE Continue(
                [w EXCEPT
                   !.tagged_data_types_offset = w.variable_size_data_type_value_offset,
                   !.offset = w.variable_size_data_type_value_offset + 4,
                   !.tagged_data_type_identifier =
                       U16(rec, w.variable_size_data_type_value_offset),
                   !.tagged_data_type_offset =
                       U16(rec, w.variable_size_data_type_value_offset + 2),
                   !.tagged_data_type_offset_data_size =
                       (U16(rec, w.variable_size_data_type_value_offset + 2) % 16384) - 4,
                   !.remaining_definition_data_size =
                       Len(rec) - w.variable_size_data_type_value_offset - 4])
    ELSE Continue(
           [w EXCEPT
              !.tagged_data_types_offset = w.variable_size_data_type_value_offset,
              !.offset = w.variable_size_data_type_value_offset,
              !.remaining_definition_data_size =
                  Len(rec) - w.variable_size_data_type_value_offset])

\* reader.rs 662-671: the next pair of the index, while the index has one
NextPair(rec, w) ==
    IF w.tagged_data_type_offset_data_size > 0
    THEN [w EXCEPT !.tagged_data_type_identifier = U16(rec, w.offset),
                   !.tagged_data_type_offset = U16(rec, w.offset + 2),
                   !.offset = @ + 4,
                   !.tagged_data_type_offset_data_size = @ - 4,
                   !.remaining_definition_data_size = @ - 4]
    ELSE w

\* reader.rs 673-682: previous is the offset of the pair matched, w the
\* variables after NextPair
tagged_data_type_size(fmt, previous, w) ==
    IF (w.tagged_data_type_offset % tagged_data_type_offset_bitmask(fmt))
           > (previous % tagged_data_type_offset_bitmask(fmt))
    THEN (w.tagged_data_type_offset % tagged_data_type_offset_bitmask(fmt))
             - (previous % tagged_data_type_offset_bitmask(fmt))
    ELSE w.remaining_definition_data_size

\* reader.rs 683
tagged_data_type_value_offset(fmt, previous, w) ==
    w.tagged_data_types_offset + (previous % tagged_data_type_offset_bitmask(fmt))

\* reader.rs 687-688: the entry begins with the byte of its flags
HasFlagsByte(fmt, previous, size) ==
    size > 0 /\ (fmt.extended \/ (previous \div 16384) % 2 = 1)

\* the two values of a MULTI_VALUE_OFFSET entry split one byte late
MvOffsetIndexes_Late(rec, off, size) ==
    << [shift |-> 1, lv |-> FALSE, size |-> U8(rec, off) + 1],
       [shift |-> U8(rec, off) + 2, lv |-> FALSE, size |-> size - U8(rec, off) - 2] >>

\* reader.rs 713-714
MvOffsetIndexes(rec, off, size) ==
    << [shift |-> 1, lv |-> FALSE, size |-> U8(rec, off)],
       [shift |-> U8(rec, off) + 1, lv |-> FALSE, size |-> size - U8(rec, off) - 1] >>

\* reader.rs 721-738: word i of the offsets of the values, and the entries
MvWord(rec, off, i) == U16(rec, off + 2 * i)

MvCount(rec, off) ==
    IF (MvWord(rec, off, 0) % 32768) \div 2 = 0 THEN 1
    ELSE (MvWord(rec, off, 0) % 32768) \div 2

MultiValueIndexes(rec, off, size) ==
    [i \in 1..MvCount(rec, off) |->
        [shift |-> MvWord(rec, off, i - 1) % 32768,
         lv |-> MvWord(rec, off, i - 1) >= 32768,
         size |-> (IF i < MvCount(rec, off) THEN MvWord(rec, off, i) % 32768 ELSE size)
                      - (MvWord(rec, off, i - 1) % 32768)]]

\* the index without the step back of reader.rs 742
SelectMv_NoStepBack(mv_indexes, multi_value_index) ==
    IF multi_value_index > 0 /\ multi_value_index < Len(mv_indexes)
    THEN multi_value_index ELSE 0

\* reader.rs 740-743: the index of the entry, from 0
SelectMv(mv_indexes, multi_value_index) ==
    IF multi_value_index > 0 /\ multi_value_index - 1 < Len(mv_indexes)
    THEN multi_value_index - 1 ELSE 0

\* reader.rs 701-703, 749-750: the value of a long-value key
LongValue(l) ==
    IF l.res = "ok" THEN Return("ok", <<l.data>>) ELSE Return(l.res, <<>>)

\* reader.rs 745-755: entry e of the values
ReadMv(rec, tags, off, e) ==
    IF e.lv THEN LongValue(load_lv_data(tags, U32(rec, off + e.shift)))
    ELSE Return("ok", <<read_bytes(rec, off + e.shift, e.size)>>)

\* reader.rs 696-775: the value of the entry of the target column, size
\* bytes at off under the flags of the entry
TaggedValue(rec, tags, data_type_flags, off, size, multi_value_index) ==
    IF Intersects(data_type_flags, LONG_VALUE)
    THEN LongValue(load_lv_data(tags, U32(rec, off)))
    ELSE IF Intersects(data_type_flags, MULTI_VALUE_OFFSET)
    THEN ReadMv(rec, tags, off,
                MvOffsetIndexes(rec, off, size)[
                    SelectMv(MvOffsetIndexes(rec, off, size), multi_value_index) + 1])
    ELSE IF Intersects(data_type_flags, MULTI_VALUE)
    THEN ReadMv(rec, tags, off,
                MultiValueIndexes(rec, off, size)[
                    SelectMv(MultiValueIndexes(rec, off, size), multi_value_index) + 1])
    ELSE IF Intersects(data_type_flags, COMPRESSED)
    THEN Return("ok", <<decompress(read_bytes(rec, off, size))>>)
    ELSE Return("ok", <<read_bytes(rec, off, size)>>)

\* reader.rs 685-776: size0 and off0 are the size and the offset of the
\* entry before its byte of flags is taken off, w the variables after NextPair
TaggedEntry(rec, tags, c, column_id, multi_value_index, w, size0, off0, flagged) ==
    IF (IF flagged THEN size0 - 1 ELSE size0) > 0 /\ c.identifier = column_id
    THEN TaggedValue(rec, tags, IF flagged THEN U8(rec, off0) ELSE 0,
                     IF flagged THEN off0 + 1 ELSE off0,
                     IF flagged THEN size0 - 1 ELSE size0, multi_value_index)
    ELSE Continue(IF size0 > 0
                  THEN [w EXCEPT !.remaining_definition_data_size = @ - size0]
                  ELSE w)

\* reader.rs 660-776: previous is the offset of the pair the column matches
TaggedMatch(rec, tags, fmt, c, column_id, multi_value_index, previous, w) ==
    TaggedEntry(rec, tags, c, column_id, multi_value_index, w,
                tagged_data_type_size(fmt, previous, w),
                tagged_data_type_value_offset(fmt, previous, w),
                HasFlagsByte(fmt, previous, tagged_data_type_size(fmt, previous, w)))

\* reader.rs 660: s is what TaggedInit left
TaggedColumn(rec, tags, fmt, c, column_id, multi_value_index, s) ==
    IF s.done THEN s
    ELSE IF s.w[1].remaining_definition_data_size > 0
            /\ c.identifier = s.w[1].tagged_data_type_identifier
    THEN CHOOSE r \in
             { TaggedMatch(rec, tags, fmt, c, column_id, multi_value_index,
                           s.w[1].tagged_data_type_offset, w) :
                 w \in { NextPair(rec, s.w[1]) } } : TRUE
    ELSE s

\* reader.rs 593-778: column c, at index j0 of the array from 0
ColumnStep(rec, tags, fmt, c, j0, column_id, multi_value_index, w) ==
    IF c.identifier <= 127
    THEN FixedColumn(rec, c, j0, column_id, w)
    ELSE IF w.current_variable_size_data_type < last_variable_size_data_type(rec)
    THEN VariableLoop(rec, c, column_id, w)
    ELSE IF tagged_data_types_format(fmt) = "Linear"
    THEN \* reader.rs 634-636: TODO, nothing is read
         Continue(w)
    ELSE CHOOSE r \in
             { TaggedColumn(rec, tags, fmt, c, column_id, multi_value_index, s) :
                 s \in { TaggedInit(rec, w) } } : TRUE

\* reader.rs 779-787 without the default value of the catalog
NotFound_NoDefault(c) == Return("ok", <<>>)

\* reader.rs 779-787: the walk went through the target column and found no
\* value
NotFound(c) ==
    IF Len(c.default_value) > 0
    THEN Return("ok", <<c.default_value>>)
    ELSE \* empty
         Return("ok", <<>>)

\* The for loop of reader.rs 592-790 from the column of w on:
\* [res, val, w], w the variables at the column that returned. (A value is
\* bound through a one-element set where it is used more than once: it is
\* then computed once.)
RECURSIVE ColumnWalk(_, _, _, _, _, _, _)
AfterColumn(rec, tags, fmt, cols, column_id, multi_value_index, w, s) ==
    IF s.done THEN [res |-> s.res, val |-> s.val, w |-> w]
    ELSE IF cols[w.j].identifier = column_id
    THEN [res |-> "ok", val |-> NotFound(cols[w.j]).val, w |-> w]
    ELSE ColumnWalk(rec, tags, fmt, cols, column_id, multi_value_index,
                    [s.w[1] EXCEPT !.j = w.j + 1])

ColumnWalk(rec, tags, fmt, cols, column_id, multi_value_index, w) ==
    IF w.j > Len(cols)
    THEN \* column not found
         [res |-> "err", val |-> <<>>, w |-> w]
    ELSE CHOOSE r \in
             { AfterColumn(rec, tags, fmt, cols, column_id, multi_value_index, w, s) :
                 s \in { ColumnStep(rec, tags, fmt, cols[w.j], w.j - 1, column_id,
                                    multi_value_index, w) } } : TRUE

\* ------------------------------------------------------------------------
\* LastLoadState, and get_column under it: ese_parser.rs 29-36, 66-82
\* ------------------------------------------------------------------------
\* LastLoadState::calc_identifier, of the one table of the model
calc_identifier(page_number, tag_index) == <<page_number, tag_index>>

\* LastLoadState::init(id): no column read, no variables of a walk kept
LastLoadStateInit(id) == [state_identifier |-> id, last_column |-> 0, w |-> <<>>]

\* the LastLoadState of a new Table
LastLoadStateDefault == LastLoadStateInit(<<>>)

\* the reset on another row only
review_last_load_state_RowOnly(s, id, column) ==
    IF s.state_identifier # id THEN LastLoadStateInit(id) ELSE s

\* Table::review_last_load_state
review_last_load_state(s, id, column) ==
    IF s.state_identifier # id \/ column <= s.last_column
    THEN \* reset
         LastLoadStateInit(id)
    ELSE s

\* load_data under a LastLoadState s: the walk goes on from the variables
\* s keeps, and a walk that returns Ok leaves its variables in s
LoadWithState(s, l) ==
    [res |-> l.res, val |-> l.val,
     lls |-> IF l.res = "ok" THEN [s EXCEPT !.w = <<l.w>>] ELSE s]

load_data_lls(s, rec, tags, fmt, cols, column_id, multi_value_index) ==
    CHOOSE r \in
        { LoadWithState(s, l) :
            l \in { ColumnWalk(rec, tags, fmt, cols, column_id, multi_value_index,
                               IF s.w = <<>> THEN WalkInit(rec) ELSE s.w[1]) } } : TRUE

\* ese_parser.rs 75-81 on what load_data returned
AfterLoad(l, column) ==
    IF l.res = "ok"
    THEN [l EXCEPT !.lls.last_column = column]
    ELSE l

\* EseParser::get_column_dyn_helper on a table at tag t of leaf lf, from
\* ese_parser.rs 71 on: s is the LastLoadState review_last_load_state left
get_column_reviewed(s, lf, tags, cols, t, column, mv_index) ==
    AfterLoad(load_data_lls(s, lf.records[t], tags, lf.format, cols, column, mv_index),
              column)

\* ------------------------------------------------------------------------
\* The bytes of a record, from what it stores: the layout reader.rs 531-776
\* reads
\* ------------------------------------------------------------------------
LE16(x) == <<x % 256, x \div 256>>

LE32(x) == LE16(x % 65536) \o LE16(x \div 65536)

RECURSIVE Flatten(_)
Flatten(ss) == IF ss = <<>> THEN <<>> ELSE Head(ss) \o Flatten(Tail(ss))

\* the bytes of fixed column c in a record that stores it
FixedValue(c) == [k \in 1..c.size |-> 10 * c.identifier + k]

\* the fixed columns 1 .. last_fixed, one after the other, null or not
FixedArea(cols, d) == Flatten([i \in 1..d.last_fixed |-> FixedValue(cols[i])])

RECURSIVE BitsOf(_)
BitsOf(S) ==
    IF S = {} THEN 0
    ELSE LET i == CHOOSE x \in S : TRUE IN (2 ^ (i - 1)) + BitsOf(S \ {i})

\* the null bits of the fixed columns, bit identifier - 1, lowest bit first
NullBitmap(d) == IF d.last_fixed = 0 THEN <<>> ELSE <<BitsOf(d.nulls)>>

\* the end offsets of the variable values, cumulative: a null value adds
\* nothing and carries the high bit
RECURSIVE VariableEnd(_, _)
VariableEnd(vs, i) ==
    IF i = 0 THEN 0
    ELSE VariableEnd(vs, i - 1) + (IF vs[i].null THEN 0 ELSE Len(vs[i].value))

VariableSizes(vs) ==
    Flatten([i \in DOMAIN vs |->
                LE16(VariableEnd(vs, i) + (IF vs[i].null THEN 32768 ELSE 0))])

VariableValues(vs) ==
    Flatten([i \in DOMAIN vs |-> IF vs[i].null THEN <<>> ELSE vs[i].value])

\* a tagged entry: the byte of its flags, when it has one, and its payload
TaggedBody(e) == (IF e.flagged THEN <<e.flags>> ELSE <<>>) \o e.payload

\* the offset of entry i from the start of the tagged area, the index first
RECURSIVE TaggedOffset(_, _)
TaggedOffset(es, i) ==
    IF i = 1 THEN 4 * Len(es)
    ELSE TaggedOffset(es, i - 1) + Len(TaggedBody(es[i - 1]))

\* the pairs (identifier, offset): bit 0x4000 of a classic offset says that
\* the entry begins with the byte of its flags
TaggedIndex(es, fmt) ==
    Flatten([i \in DOMAIN es |->
                LE16(es[i].identifier)
                    \o LE16(TaggedOffset(es, i)
                                + (IF es[i].flagged /\ ~fmt.extended THEN 16384 ELSE 0))])

TaggedBodies(es) == Flatten([i \in DOMAIN es |-> TaggedBody(es[i])])

EncodeRecord(cols, d, fmt) ==
    <<d.last_fixed, 127 + Len(d.variable)>>
        \o LE16(SizeOfDataDefinitionHeader + Len(FixedArea(cols, d)) + Len(NullBitmap(d)))
        \o FixedArea(cols, d) \o NullBitmap(d)
        \o VariableSizes(d.variable) \o VariableValues(d.variable)
        \o TaggedIndex(d.tagged, fmt) \o TaggedBodies(d.tagged)

\* ------------------------------------------------------------------------
\* The records, columns and leaves SpecColumn reads
\* ------------------------------------------------------------------------
\* The columns of the table, in the order of the catalog: two fixed, two
\* variable and two tagged, with or without default values.
Columns(defaults) ==
    [i \in 1..6 |->
        [identifier |-> <<1, 2, 128, 129, 256, 257>>[i],
         size |-> <<2, 1, 0, 0, 0, 0>>[i],
         default_value |-> IF defaults THEN <<200 + i>> ELSE <<>>]]

\* the columns asked for: the columns of the table and one it does not have
ColumnIds == {1, 2, 128, 129, 256, 257, 258}

\* the long value of key 5, its second segment first
ColumnLvTags ==
    << [key |-> 5, seg_offset |-> 2, offset |-> 900, size |-> 1],
       [key |-> 5, seg_offset |-> 0, offset |-> 700, size |-> 2] >>

FixedParts ==
    { [last_fixed |-> n, nulls |-> S] : n \in 0..2, S \in SUBSET {1, 2} }

VariableParts ==
    { <<>>,
      << [null |-> FALSE, value |-> <<71, 72>>] >>,
      << [null |-> FALSE, value |-> <<>>] >>,
      << [null |-> TRUE, value |-> <<>>] >>,
      << [null |-> FALSE, value |-> <<71, 72>>], [null |-> FALSE, value |-> <<73>>] >>,
      << [null |-> TRUE, value |-> <<>>], [null |-> FALSE, value |-> <<73>>] >>,
      << [null |-> FALSE, value |-> <<71, 72>>], [null |-> TRUE, value |-> <<>>] >> }

Entry(id, flagged, flags, payload) ==
    [identifier |-> id, flagged |-> flagged, flags |-> flags, payload |-> payload]

\* the entries a tagged column is stored as: raw with and without a byte of
\* flags, the two values of MULTI_VALUE_OFFSET, the values of MULTI_VALUE
\* (one, two, and two with the second a long value), compressed, and a long
\* value of a key the table has or has not
TaggedEntries(id) ==
    { Entry(id, FALSE, 0, <<81, 82>>),
      Entry(id, TRUE, 1, <<83>>),
      Entry(id, TRUE, MULTI_VALUE, LE16(2) \o <<44>>),
      Entry(id, TRUE, MULTI_VALUE, LE16(4) \o LE16(6) \o <<41, 42, 43>>),
      Entry(id, TRUE, MULTI_VALUE, LE16(4) \o LE16(6 + 32768) \o <<45, 46>> \o LE32(5)),
      Entry(id, TRUE, COMPRESSED, <<51, 52>>),
      Entry(id, TRUE, LONG_VALUE, LE32(5)),
      Entry(id, TRUE, LONG_VALUE, LE32(6)) }
    \cup { Entry(id, TRUE, MULTI_VALUE_OFFSET, <<k, 31, 32, 33>>) : k \in 0..3 }

StandardEntry(id) == Entry(id, TRUE, 1, <<83>>)

TaggedParts ==
    { <<>> }
    \cup { <<e>> : e \in TaggedEntries(257) }
    \cup { <<e, StandardEntry(257)>> : e \in TaggedEntries(256) }

Desc(f, v, t) ==
    [last_fixed |-> f.last_fixed, nulls |-> f.nulls, variable |-> v, tagged |-> t]

StandardFixed == [last_fixed |-> 2, nulls |-> {}]

StandardVariable == << [null |-> FALSE, value |-> <<71, 72>>] >>

\* what the rows store: each part varies against the standard other parts
Descs ==
    { Desc(f, StandardVariable, <<StandardEntry(257)>>) :
        f \in { x \in FixedParts : x.nulls \subseteq 1..x.last_fixed } }
    \cup { Desc(StandardFixed, v, <<StandardEntry(257)>>) : v \in VariableParts }
    \cup { Desc(StandardFixed, StandardVariable, t) : t \in TaggedParts }

\* the second row of the leaf
OtherDesc ==
    Desc([last_fixed |-> 1, nulls |-> {}], << [null |-> FALSE, value |-> <<75>>] >>,
         << Entry(256, TRUE, 1, <<85, 86>>) >>)

\* what a decode of each column of record rec returns when it starts
\* with no LastLoadState
Decoded(rec, tags, fmt, cols) ==
    [c \in ColumnIds, m \in 0..MaxMvIndex |->
        [x \in {"res", "val"} |->
            ColumnWalk(rec, tags, fmt, cols, c, m, WalkInit(rec))[x]]]

\* the leaf: tag t holds records[t], which stores descs[t]; decoded[t] is
\* kept for the statements below
LeafOf(fmt, descs, records, tags, cols) ==
    [page_number |-> 7, format |-> fmt, descs |-> descs, records |-> records,
     decoded |-> [t \in DOMAIN records |-> Decoded(records[t], tags, fmt, cols)]]

Leaf(cols, d, fmt, tags) ==
    CHOOSE lf \in
        { LeafOf(fmt, <<d, OtherDesc>>, records, tags, cols) :
            records \in { <<EncodeRecord(cols, d, fmt),
                            EncodeRecord(cols, OtherDesc, fmt)>> } } : TRUE

NoLeaf ==
    [page_number |-> 0, format |-> Format(0, FALSE), descs |-> <<>>, records |-> <<>>,
     decoded |-> <<>>]

NoColumnCall ==
    [op |-> "none", row |-> 0, column |-> 0, mv |-> 0, res |-> "none", val |-> <<>>,
     fresh |-> FALSE, last_read |-> <<>>]

IdleColumn ==
    /\ leaf = NoLeaf
    /\ tbl_def = <<>>
    /\ lv_tags = <<>>
    /\ row = 0
    /\ lls = LastLoadStateDefault
    /\ col = NoColumnCall


\* ------------------------------------------------------------------------
\* SpecCursor: the calls on one table handle of a loaded file
\* ------------------------------------------------------------------------
\* the Table of the handle
Tbl == [father_data_page_number |-> fdp, current_page |-> current_page,
        page_tag_index |-> page_tag_index]

NoCall == [op |-> "none", crow |-> "none", val |-> "none", row |-> <<>>, after_false |-> FALSE]

\* A run is a start call (MoveFirst, MoveLast) and the step calls (MoveNext,
\* MovePrevious) that follow it with no other move between, up to the first
\* false: seq holds the positions on which the calls returned true.
Idle == [st |-> "idle", seq |-> <<>>]

Observe(run, start, step, crow, res, pos) ==
    IF crow = start
    THEN IF res = "true" THEN [st |-> "run", seq |-> <<pos>>]
                         ELSE [st |-> "done", seq |-> <<>>]
    ELSE IF run.st # "run" THEN run
    ELSE IF crow = step
         THEN IF res = "true" THEN [run EXCEPT !.seq = Append(@, pos)]
                              ELSE [run EXCEPT !.st = "done"]
         ELSE Idle

InitCursor ==
    /\ \E chain \in LeafChains, rootLeaf \in BOOLEAN :
          /\ rootLeaf => Len(chain) = 1
          /\ pages = TreePages(chain, rootLeaf)
          /\ fdp = IF rootLeaf THEN 1 ELSE Len(chain) + 1
    /\ overflow_checks = "unknown"
    \* ese_parser.rs 210: the Table as EseDb::load builds it
    /\ current_page = <<>>
    /\ page_tag_index = 0
    /\ ret = NoCall
    /\ fwd = Idle
    /\ bwd = Idle
    /\ file = NoFile
    /\ reader = <<>>
    /\ rd = NoRead
    /\ passes = PassesOff
    /\ parser = NoParser
    /\ load_ret = NoLoad
    /\ handles = <<>>
    /\ IdleColumn

Running == ret.val # "panic"

\* the call computes page_tag_index - 1 below zero (ese_parser.rs 128)
Overflows(t, crow) ==
    crow \in {ESE_MoveLast, ESE_MovePrevious} /\ t.page_tag_index = 0

\* the profiles the call can tell apart
Profiles(t, crow) ==
    IF ~Overflows(t, crow) THEN {FALSE}
    ELSE IF overflow_checks = "unknown" THEN BOOLEAN ELSE {overflow_checks = "on"}

MoveRow(crow) ==
    /\ Running
    /\ \E checks \in Profiles(Tbl, crow) :
         LET r == move_row(Tbl, crow, checks)
             pos == <<page(r.t).page_number, r.t.page_tag_index>>
         IN  /\ current_page' = r.t.current_page
             /\ page_tag_index' = r.t.page_tag_index
             /\ ret' = [op |-> "move_row", crow |-> crow, val |-> r.res, row |-> <<>>,
                        after_false |-> FALSE]
             /\ overflow_checks' = IF Overflows(Tbl, crow)
                                   THEN (IF checks THEN "on" ELSE "off")
                                   ELSE overflow_checks
             /\ IF r.res = "panic" THEN UNCHANGED <<fwd, bwd>>
                ELSE /\ fwd' = Observe(fwd, ESE_MoveFirst, ESE_MoveNext, crow, r.res, pos)
                     /\ bwd' = Observe(bwd, ESE_MoveLast, ESE_MovePrevious, crow, r.res, pos)
    /\ UNCHANGED <<pages, fdp>>
    /\ UNCHANGED pager_vars
    /\ UNCHANGED load_vars
    /\ UNCHANGED column_vars

GetColumn ==
    /\ Running
    /\ LET r == get_column_dyn_helper(Tbl)
       IN  ret' = [op |-> "get_column", crow |-> "none", val |-> r.res, row |-> r.row,
                   after_false |-> (ret.op = "move_row" /\ ret.val = "false")]
    /\ UNCHANGED <<pages, fdp, overflow_checks, current_page, page_tag_index, fwd, bwd>>
    /\ UNCHANGED pager_vars
    /\ UNCHANGED load_vars
    /\ UNCHANGED column_vars

\* open_table of the table's name (found) or of a name the catalog does not
\* have
OpenTable(found) ==
    /\ Running
    /\ LET r == open_table(Tbl, found)
       IN  /\ current_page' = r.t.current_page
           /\ page_tag_index' = r.t.page_tag_index
           /\ ret' = [op |-> IF found THEN "open_table" ELSE "open_unknown_table",
                      crow |-> "none", val |-> r.res, row |-> <<>>,
                      after_false |-> FALSE]
    /\ fwd' = IF found /\ fwd.st = "run" THEN Idle ELSE fwd
    /\ bwd' = IF found /\ bwd.st = "run" THEN Idle ELSE bwd
    /\ UNCHANGED <<pages, fdp, overflow_checks>>
    /\ UNCHANGED pager_vars
    /\ UNCHANGED load_vars
    /\ UNCHANGED column_vars

NextCursor ==
    \/ \E crow \in Crows : MoveRow(crow)
    \/ GetColumn
    \/ \E found \in BOOLEAN : OpenTable(found)

SpecCursor == InitCursor /\ [][NextCursor]_vars


\* ------------------------------------------------------------------------
\* Properties of the cursor
\* ------------------------------------------------------------------------
Reverse(q) == [i \in 1..Len(q) |-> q[Len(q) + 1 - i]]

\* the non-defunct data tags (index >= 1) of a page, in tag order
RowsOf(p) ==
    SelectSeq([i \in 1..(NTags(p) - 1) |-> <<p.page_number, i>>],
              LAMBDA r : ~IsDefunct(p, r[2]))

\* the rows of the leaf chain that starts at page n, in page-then-tag order
RECURSIVE ChainRows(_)
ChainRows(n) ==
    IF n = 0 THEN <<>> ELSE RowsOf(pages[n]) \o ChainRows(pages[n].next_page)

TableRows == ChainRows(find_first_leaf_page(fdp).page)

Positioned ==
    /\ current_page # <<>>
    /\ 1 <= page_tag_index
    /\ page_tag_index < NTags(current_page[1])
    /\ ~IsDefunct(current_page[1], page_tag_index)

\* C1: a finished MoveFirst, MoveNext, ... run returned true once for every
\* non-defunct data tag of the table's leaf chain, in page-then-tag order.
C1_ForwardRunVisitsEveryRow ==
    fwd.st = "done" => fwd.seq = TableRows

\* C2: the positions of a finished MoveLast, MovePrevious, ... run are the
\* positions of a finished MoveFirst, MoveNext, ... run in reverse order.
C2_BackwardRunIsReverse ==
    (fwd.st = "done" /\ bwd.st = "done") => bwd.seq = Reverse(fwd.seq)

\* C3: move_row(First) and move_row(Last) complete from every cursor state:
\* they return true with the cursor on a row, or false; they never abort.
C3_FirstAndLastComplete ==
    (ret.op = "move_row" /\ ret.crow \in {ESE_MoveFirst, ESE_MoveLast}) =>
        \/ ret.val = "true" /\ Positioned
        \/ ret.val = "false"

\* C22: after a successful open_table the cursor is where move_row(First)
\* leaves it: on the first non-defunct data tag of the leaf chain that
\* starts at the leaf find_first_leaf_page reaches from the table's FDP.
C22_OpenTableIsOnFirstRow ==
    (ret.op = "open_table" /\ ret.val = "ok" /\ TableRows # <<>>) =>
        /\ Positioned
        /\ <<current_page[1].page_number, page_tag_index>> = TableRows[1]

\* C28: a move_row that returns false (end of data in either direction, an
\* unknown whence code, an error) leaves the current page and the tag index
\* of the cursor as they were before the call.
C28_FalseMoveKeepsCursor ==
    [][(ret'.op = "move_row" /\ ret'.val = "false")
          => (current_page' = current_page /\ page_tag_index' = page_tag_index)]_vars

\* C4: a get_column that follows a move_row that returned false fails.
C4_GetColumnFailsAfterFalse ==
    (ret.op = "get_column" /\ ret.after_false) => ret.val = "err"

\* C5: when move_row returns true the tag index i of the cursor satisfies
\* 1 <= i < number of tags of the current page and tag i is not defunct.
C5_TrueMeansLiveDataTag ==
    (ret.op = "move_row" /\ ret.val = "true") => Positioned

\* a MoveNext that returned true on a tag right after a defunct one
C5_Witness ==
    /\ ret.op = "move_row" /\ ret.val = "true" /\ ret.crow = ESE_MoveNext
    /\ page_tag_index >= 2
    /\ IsDefunct(current_page[1], page_tag_index - 1)


\* ------------------------------------------------------------------------
\* SpecPager: one Reader on one file, as reader/test.rs 26-56 drives it
\* ------------------------------------------------------------------------
InitPager ==
    /\ file \in PagerFiles
    /\ reader = <<>>
    /\ rd = NoRead
    /\ passes = PassesOff
    /\ parser = NoParser
    /\ load_ret = NoLoad
    /\ handles = <<>>
    /\ pages = <<>>
    /\ fdp = 0
    /\ overflow_checks = "unknown"
    /\ current_page = <<>>
    /\ page_tag_index = 0
    /\ ret = NoCall
    /\ fwd = Idle
    /\ bwd = Idle
    /\ IdleColumn

\* Reader::new(path, cache_size)
Open ==
    /\ reader = <<>>
    /\ rd.op = "none"
    /\ LET o == ReaderNew(file, CacheCapacity, TRUE) IN
          /\ reader' = o.reader
          /\ rd' = [NoRead EXCEPT !.op = "new", !.res = o.res]
          /\ passes' = IF o.res = "ok" THEN PassesStart ELSE PassesOff
    /\ UNCHANGED file
    /\ UNCHANGED cursor_vars
    /\ UNCHANGED load_vars
    /\ UNCHANGED column_vars

\* the requests: from the start or the middle of a page of the file or of
\* the page after its last, for half a page or a whole one
ReadOffsets ==
    IF reader = <<>> THEN {}
    ELSE { pg * reader[1].page_size + d :
             pg \in 0..file.npages, d \in {0, reader[1].page_size \div 2} }

ReadLens ==
    IF reader = <<>> THEN {}
    ELSE {reader[1].page_size \div 2, reader[1].page_size}

\* what get can do to the order of the recent queue: nothing to tell apart
\* unless the page is an entry of that queue
RefreshOutcomes(offset) ==
    IF reader # <<>> /\ (offset \div reader[1].page_size) \in QKeys(reader[1].cache.recent)
    THEN BOOLEAN ELSE {TRUE}

\* reader.read(offset, buf) with buf.len() = len
Read(offset, len) ==
    /\ reader # <<>>
    /\ rd.res # "panic"
    /\ \E refresh \in RefreshOutcomes(offset) :
          LET r == ReaderRead(reader[1], file, offset, len, refresh) IN
          /\ reader' = <<r.reader>>
          /\ rd' = [op |-> "read", res |-> r.res, offset |-> offset, len |-> len,
                    data |-> r.data, fetched |-> r.fetched]
          /\ passes' = ObservePass(passes, r.res, offset \div reader[1].page_size,
                                   r.fetched)
    /\ UNCHANGED file
    /\ UNCHANGED cursor_vars
    /\ UNCHANGED load_vars
    /\ UNCHANGED column_vars

NextPager ==
    \/ Open
    \/ \E offset \in ReadOffsets, len \in ReadLens : Read(offset, len)

SpecPager == InitPager /\ [][NextPager]_vars

Cached == reader[1].cache.recent \o reader[1].cache.frequent

IsCached(pg_no) == CacheContainsKey(reader[1].cache, pg_no)

\* C6 as stated: after any sequence of reads on a pager opened with
\* cache_capacity C, the recent and the frequent queue together hold at most
\* C pages.
C6_AtMostCapacityPages ==
    reader # <<>> => Len(Cached) <= CacheCapacity

\* C6 amended: after any sequence of reads on a pager opened with
\* cache_capacity C, the recent queue holds at most C pages and the frequent
\* queue holds at most C pages, 2 * C pages together.
C6_AtMostCapacityPerQueue ==
    reader # <<>> =>
        /\ Len(reader[1].cache.recent) <= CacheCapacity
        /\ Len(reader[1].cache.frequent) <= CacheCapacity
        /\ Len(Cached) <= 2 * CacheCapacity

C6_Witness ==
    /\ reader # <<>>
    /\ rd.op = "read"
    /\ Len(reader[1].cache.recent) = CacheCapacity
    /\ Len(reader[1].cache.frequent) = CacheCapacity

\* C7: after C + 1 distinct pages p1 .. p(C+1) are read from an empty cache
\* of capacity C, p1 is not cached and p2 .. p(C+1) are; when the pages are
\* read again in the same order, the read of p1 goes to the disk, the reads
\* of p2 .. p(C+1) do not, and p2 .. p(C+1) stay cached throughout.
C7_EvictionOfTheOldest ==
    passes.st \in {"pass2", "done"} =>
        /\ passes.second = <<>> => ~IsCached(passes.first[1])
        /\ \A i \in 2..(CacheCapacity + 1) : IsCached(passes.first[i])
        /\ \A j \in DOMAIN passes.second : passes.second[j] = (j = 1)

C7_Witness ==
    /\ passes.st = "done"
    /\ Len(passes.second) = CacheCapacity + 1

\* C8: a read of len bytes at offset that stays within one page of the file
\* returns the bytes [offset, offset + len) of the file, whatever the cache
\* holds; and every cached entry of page index p holds the page_size bytes
\* at p * page_size under the page size of the header, none of them read
\* under the provisional page size.
C8_ReadReturnsFileBytes ==
    /\ (/\ rd.op = "read"
        /\ (rd.offset % reader[1].page_size) + rd.len <= reader[1].page_size
        /\ rd.offset + rd.len <= FileLen(file))
       => /\ rd.res = "ok"
          /\ rd.data = <<[off |-> rd.offset, len |-> rd.len]>>
    /\ reader # <<>> =>
          \A i \in DOMAIN Cached :
              Cached[i].val = [off |-> Cached[i].key * reader[1].page_size,
                               size |-> reader[1].page_size]

\* a page evicted and loaded again, read from its middle without a fetch
C8_Witness ==
    /\ rd.op = "read"
    /\ rd.res = "ok"
    /\ ~rd.fetched
    /\ (rd.offset % reader[1].page_size) # 0
    /\ (rd.offset \div reader[1].page_size) \in QKeys(reader[1].cache.frequent)

\* ------------------------------------------------------------------------
\* SpecLoad: load calls on one parser
\* ------------------------------------------------------------------------
Revisions == {0, 12, 17}

\* The mirror is the header found one page after the primary, and states the
\* page size of the file; the primary states any of the values below.
Headers(ps) ==
    { [primary |-> MkHeader(sig, ver, rev, pps, <<7, 11>>, sum_ok),
       mirror |-> GoodHeader(mrev, ps)] :
        sig \in {ESEDB_FILE_SIGNATURE, <<0, 0>>},
        ver \in {SupportedFormatVersion, SupportedFormatVersion + 3},
        rev \in {0, 17}, pps \in {0, ps, 2 * ps},
        sum_ok \in BOOLEAN, mrev \in Revisions }

\* catalogs of no table, one table and two tables, a catalog that repeats
\* the long-value item of a table, and a catalog page that is neither a leaf
\* nor a branch
Catalogs ==
    { OneLeaf({IS_ROOT, IS_LEAF}, LiveEntries(it)) :
        it \in { <<>>, <<"Column">>, <<"Table">>, <<"Table", "Column", "Table">>,
                 <<"Table", "LongValue", "LongValue">> } }
    \cup { OneLeaf({IS_ROOT, IS_PARENT}, LiveEntries(<<"Table", "LongValue">>)),
           OneLeaf({IS_ROOT}, LiveEntries(<<"Table">>)) }

Opens(f) == load_db(f, CacheCapacity, TRUE).res = "ok"

\* the files: every header, and every catalog behind the headers that open
LoadFiles ==
    { f \in { [primary |-> h.primary, mirror |-> h.mirror, page_size |-> ps,
               npages |-> NumFilePages, catalog |-> c] :
                h \in Headers(4096), ps \in {4096}, c \in Catalogs } :
        f.catalog = EmptyCatalog \/ Opens(f) }

InitLoad ==
    /\ parser = init(CacheCapacity)
    /\ load_ret = NoLoad
    /\ handles = <<>>
    /\ file = NoFile
    /\ reader = <<>>
    /\ rd = NoRead
    /\ passes = PassesOff
    /\ pages = <<>>
    /\ fdp = 0
    /\ overflow_checks = "unknown"
    /\ current_page = <<>>
    /\ page_tag_index = 0
    /\ ret = NoCall
    /\ fwd = Idle
    /\ bwd = Idle
    /\ IdleColumn

\* parser.load(dbpath), dbpath the path of f
Load(f) ==
    /\ load_ret.n < MaxLoads
    /\ load_ret.res # "panic"
    /\ LET l == load(parser, f) IN
       /\ parser' = l.parser
       /\ load_ret' = [op |-> "load", res |-> l.res, open |-> l.open,
                       before |-> parser, n |-> load_ret.n + 1]
    /\ file' = f
    /\ UNCHANGED handles
    /\ UNCHANGED <<reader, rd, passes>>
    /\ UNCHANGED cursor_vars
    /\ UNCHANGED column_vars

NextLoad == \E f \in LoadFiles : Load(f)

SpecLoad == InitLoad /\ [][NextLoad]_vars

\* the checks of the header other than the one on the format revision
OtherChecksPass(f) ==
    /\ f.primary.signature = ESEDB_FILE_SIGNATURE
    /\ f.primary.checksum = calc_crc32(f.primary)
    /\ f.primary.format_version = SupportedFormatVersion
    /\ f.primary.page_size = 0 \/ f.primary.page_size = f.mirror.page_size

\* C9: a load of a file whose primary header does not carry the ESE
\* signature returns an error and leaves the parser as it was: on a parser
\* that loaded nothing before, no pager is installed and tables() lists no
\* table.
C9_BadSignatureLeavesParser ==
    (load_ret.op = "load" /\ file.primary.signature # ESEDB_FILE_SIGNATURE) =>
        /\ load_ret.res = "err"
        /\ parser = load_ret.before
        /\ load_ret.n = 1 => (parser.reader = <<>> /\ get_tables(parser) = <<>>)

\* every other check of the header passes, and the catalog loads
C9_Witness ==
    /\ load_ret.op = "load"
    /\ load_ret.n = 1
    /\ file.primary.signature # ESEDB_FILE_SIGNATURE
    /\ Opens([file EXCEPT !.primary = GoodHeader(17, file.page_size)])
    /\ file.primary.checksum = calc_crc32(file.primary)
    /\ load_ret.res = "err"

\* C10: when the primary header has format_revision 0, the mirror has a
\* revision r other than 0 and every other check of the header passes, the
\* open succeeds and the format revision of the pager is r.
C10_RevisionFilledFromMirror ==
    (/\ load_ret.op = "load"
     /\ file.primary.format_revision = 0
     /\ file.mirror.format_revision # 0
     /\ OtherChecksPass(file))
    => /\ load_ret.open.res = "ok"
       /\ load_ret.open.reader[1].format_revision = file.mirror.format_revision

\* C11: when the primary header has page_size 0, the mirror header has a
\* page size s other than 0 and every other check of the header passes, the
\* open succeeds and the page size of the pager is s.
C11_PageSizeFilledFromMirror ==
    (/\ load_ret.op = "load"
     /\ file.primary.page_size = 0
     /\ file.mirror.page_size # 0
     /\ file.primary.signature = ESEDB_FILE_SIGNATURE
     /\ file.primary.checksum = calc_crc32(file.primary)
     /\ file.primary.format_version = SupportedFormatVersion
     /\ file.primary.format_revision \in {0, file.mirror.format_revision})
    => /\ load_ret.open.res = "ok"
       /\ load_ret.open.reader[1].page_size = file.mirror.page_size

\* the checks of the header, the zero fields of the primary taken from the
\* mirror
AllChecksHold(f) ==
    /\ f.primary.signature = ESEDB_FILE_SIGNATURE
    /\ f.primary.checksum = calc_crc32(f.primary)
    /\ f.primary.format_revision \in {0, f.mirror.format_revision}
    /\ f.primary.page_size \in {0, f.mirror.page_size}
    /\ f.primary.format_version = SupportedFormatVersion

\* C12: the open returns a pager only if the signature matches, the stored
\* checksum is the xor-fold of the header words after it from 0x89abcdef,
\* the format revision and the page size, zero filled from the mirror, equal
\* the mirror's, and the format version is 0x620; in every other case the
\* open fails with an error and there is no pager.
C12_PagerOnlyIfAllChecksHold ==
    load_ret.op = "load" =>
        /\ load_ret.open.res = "ok" => AllChecksHold(file)
        /\ ~AllChecksHold(file) =>
              (load_ret.open.res = "err" /\ load_ret.open.reader = <<>>)

\* ------------------------------------------------------------------------
\* SpecColumn: get_column and get_column_mv on the rows of one leaf
\* ------------------------------------------------------------------------
IdleOthers ==
    /\ pages = <<>>
    /\ fdp = 0
    /\ overflow_checks = "unknown"
    /\ current_page = <<>>
    /\ page_tag_index = 0
    /\ ret = NoCall
    /\ fwd = Idle
    /\ bwd = Idle
    /\ file = NoFile
    /\ reader = <<>>
    /\ rd = NoRead
    /\ passes = PassesOff
    /\ parser = NoParser
    /\ load_ret = NoLoad
    /\ handles = <<>>

InitColumn ==
    \* files of the Index format: revision 12, and revision 17 with large
    \* pages (the extended page header)
    /\ \E defaults \in BOOLEAN, d \in Descs, extended \in BOOLEAN :
          /\ extended => (defaults /\ d.tagged # <<>>
                             /\ \A i \in DOMAIN d.tagged : d.tagged[i].flagged)
          /\ tbl_def = Columns(defaults)
          /\ leaf = Leaf(Columns(defaults), d,
                         Format(IF extended THEN 17 ELSE 12, extended), ColumnLvTags)
    /\ lv_tags = ColumnLvTags
    /\ row = 0
    /\ lls = LastLoadStateDefault
    /\ col = NoColumnCall
    /\ IdleOthers

\* the cursor comes to stand on tag t of the leaf
Seek(t) ==
    /\ t # row
    /\ row' = t
    /\ col' = [NoColumnCall EXCEPT !.last_read = col.last_read]
    /\ UNCHANGED <<leaf, tbl_def, lv_tags, lls>>
    /\ UNCHANGED <<cursor_vars, pager_vars, load_vars>>

\* what a call that returned g leaves in col; s is the LastLoadState the
\* decoder started from
Called(column, mv_index, s, g) ==
    [op |-> "get_column_mv", row |-> row, column |-> column, mv |-> mv_index,
     res |-> g.res, val |-> g.val, fresh |-> (s.w = <<>>),
     last_read |-> IF g.res = "ok" THEN << [row |-> row, column |-> column] >>
                   ELSE col.last_read]

\* ese_parser.rs 71: the LastLoadState of the table after the review
Reviewed(column) ==
    review_last_load_state(lls, calc_identifier(leaf.page_number, row), column)

\* ese_parser.rs 72-81: what the call returns, and the LastLoadState it leaves
Got(column, mv_index) ==
    get_column_reviewed(Reviewed(column), leaf, lv_tags, tbl_def, row, column, mv_index)

\* get_column_mv(table, column, mv_index); get_column is the call with
\* mv_index 0
GetColumnMv(column, mv_index) ==
    /\ IF row = 0
       THEN \* no current page
            /\ lls' = lls
            /\ col' = [NoColumnCall EXCEPT !.op = "get_column_mv", !.column = column,
                                           !.mv = mv_index, !.res = "err",
                                           !.last_read = col.last_read]
       ELSE \E g \in { Got(column, mv_index) } :
                /\ lls' = g.lls
                /\ col' = Called(column, mv_index, Reviewed(column), g)
    /\ UNCHANGED <<leaf, tbl_def, lv_tags, row>>
    /\ UNCHANGED <<cursor_vars, pager_vars, load_vars>>

NextColumn ==
    \/ \E t \in 1..2 : Seek(t)
    \/ \E column \in ColumnIds, mv_index \in 0..MaxMvIndex : GetColumnMv(column, mv_index)

SpecColumn == InitColumn /\ [][NextColumn]_vars

\* the last call returned what a decode of its column on its row returns
\* when it starts with no memo
ReturnedFresh ==
    /\ col.res = leaf.decoded[col.row][col.column, col.mv].res
    /\ col.val = leaf.decoded[col.row][col.column, col.mv].val

\* C13: on a positioned cursor, what get_column(c) returns is a function of
\* the current row and c: it is what a decode with no memo returns, and the
\* same call again on the same row returns the same; and a call for a
\* column not above the last column read, or on another row than the last
\* read, starts its decode with the memo discarded.
C13_MemoOnlyOnAscendingColumns ==
    [][(col'.op = "get_column_mv" /\ col'.row # 0) =>
          /\ ReturnedFresh'
          /\ (col.op = "get_column_mv" /\ col.row = col'.row
                 /\ col.column = col'.column /\ col.mv = col'.mv)
                => (col'.res = col.res /\ col'.val = col.val)
          /\ \A i \in DOMAIN col.last_read :
                (col.last_read[i].row # col'.row \/ col'.column <= col.last_read[i].column)
                    => col'.fresh]_vars

\* the second tagged column read from the memo of an earlier column
C13_Witness ==
    /\ col.op = "get_column_mv"
    /\ col.res = "ok"
    /\ col.val # <<>>
    /\ ~col.fresh
    /\ col.column = 257
    /\ col.last_read = << [row |-> row, column |-> 257] >>

\* the entries of column id in what tag t stores: none or one
StoredEntry(t, id) == SelectSeq(leaf.descs[t].tagged, LAMBDA e : e.identifier = id)

IsMultiValueOffset(e) ==
    e.flagged /\ Intersects(e.flags, MULTI_VALUE_OFFSET) /\ ~Intersects(e.flags, LONG_VALUE)

\* C18: for a tagged entry flagged MULTI_VALUE_OFFSET whose payload has
\* size bytes, the first of them k: get_column_mv(id, 1) returns the k bytes
\* payload[1..=k], and get_column_mv(id, 2) the size - k - 1 bytes
\* payload[k+1..size] (positions from 0).
C18_TwoValuesOfMultiValueOffset ==
    (col.op = "get_column_mv" /\ col.row # 0) =>
        \A e \in SeqElems(StoredEntry(col.row, col.column)) :
            IsMultiValueOffset(e) =>
                /\ col.mv = 1 =>
                      /\ col.res = "ok"
                      /\ col.val = <<SubSeq(e.payload, 2, e.payload[1] + 1)>>
                      /\ Len(col.val[1]) = e.payload[1]
                /\ col.mv = 2 =>
                      /\ col.res = "ok"
                      /\ col.val = <<SubSeq(e.payload, e.payload[1] + 2, Len(e.payload))>>
                      /\ Len(col.val[1]) = Len(e.payload) - e.payload[1] - 1

\* the second value of an entry that splits after its first value byte
C18_Witness ==
    /\ col.op = "get_column_mv"
    /\ col.row = 1
    /\ col.mv = 2
    /\ col.column = 256
    /\ StoredEntry(1, 256) = << Entry(256, TRUE, MULTI_VALUE_OFFSET, <<1, 31, 32, 33>>) >>
    /\ col.val = << <<32, 33>> >>

\* the column is stored with more than one value in tag t
IsMultiValued(t, id) ==
    \E e \in SeqElems(StoredEntry(t, id)) :
        /\ e.flagged
        /\ ~Intersects(e.flags, LONG_VALUE)
        /\ Intersects(e.flags, MULTI_VALUE_OFFSET) \/ Intersects(e.flags, MULTI_VALUE)

\* C19: on a positioned row, for every column, get_column_mv(col, 0) and
\* get_column_mv(col, 1), called one after the other, return the same; and
\* for a column that is not multi-valued in the row, two calls one after
\* the other return the same whatever their multi-value indexes.
C19_IndexZeroIsIndexOne ==
    [][(/\ col.op = "get_column_mv" /\ col'.op = "get_column_mv"
        /\ col'.row # 0 /\ col.row = col'.row /\ col.column = col'.column
        /\ {col.mv, col'.mv} = {0, 1} \/ ~IsMultiValued(col.row, col.column))
       => (col'.res = col.res /\ col'.val = col.val)]_vars

\* index 1 of a column of two values returned the first of them
C19_Witness ==
    /\ col.op = "get_column_mv"
    /\ col.row = 1
    /\ col.mv = 1
    /\ col.column = 256
    /\ IsMultiValued(1, 256)
    /\ Intersects(StoredEntry(1, 256)[1].flags, MULTI_VALUE)
    /\ col.val = << <<41, 42>> >>
    /\ leaf.decoded[1][256, 2].val = << <<43>> >>

\* word i, from 0, of the payload of a stored entry
PayloadWord(e, i) == e.payload[2 * i + 1] + 256 * e.payload[2 * i + 2]

\* the entry holds its sub-values in its payload (none is a long value)
HoldsSubValues(e) ==
    /\ e.flagged /\ ~Intersects(e.flags, LONG_VALUE)
    /\ \/ Intersects(e.flags, MULTI_VALUE_OFFSET)
       \/ /\ Intersects(e.flags, MULTI_VALUE)
          /\ \A i \in 0..(PayloadWord(e, 0) \div 2 - 1) : PayloadWord(e, i) < 32768

\* the sub-values a stored entry holds, in their order: the two of
\* MULTI_VALUE_OFFSET, or the ones the offsets of MULTI_VALUE delimit
SubValues(e) ==
    IF Intersects(e.flags, MULTI_VALUE_OFFSET)
    THEN << SubSeq(e.payload, 2, e.payload[1] + 1),
            SubSeq(e.payload, e.payload[1] + 2, Len(e.payload)) >>
    ELSE [i \in 1..(PayloadWord(e, 0) \div 2) |->
             SubSeq(e.payload, PayloadWord(e, i - 1) + 1,
                    IF i < PayloadWord(e, 0) \div 2 THEN PayloadWord(e, i)
                    ELSE Len(e.payload))]

\* C27: for a tagged column stored with n sub-values and a multi-value
\* index m >= 1, get_column_mv(col, m) returns sub-value m - 1 (from 0) when
\* m <= n and no value when m > n.
C27_SubValueOfIndex ==
    (col.op = "get_column_mv" /\ col.row # 0 /\ col.mv >= 1) =>
        \A e \in SeqElems(StoredEntry(col.row, col.column)) :
            HoldsSubValues(e) =>
                IF col.mv <= Len(SubValues(e))
                THEN col.res = "ok" /\ col.val = <<SubValues(e)[col.mv]>>
                ELSE col.val = <<>>

\* the column is one of the catalog and tag t stores no value for it: a
\* fixed column above the last fixed column of the record, a variable
\* column above its last variable column, a tagged column with no entry
NotStored(t, id) ==
    /\ \E j \in DOMAIN tbl_def : tbl_def[j].identifier = id
    /\ IF id <= 127 THEN id > leaf.descs[t].last_fixed
       ELSE IF id < 256 THEN id - 127 > Len(leaf.descs[t].variable)
       ELSE StoredEntry(t, id) = <<>>

\* the default value the catalog has for the column
DefaultOf(id) ==
    (CHOOSE c \in SeqElems(tbl_def) : c.identifier = id).default_value

\* Some(copy of the default) when the catalog has one, None otherwise
DefaultOrNone(id) == IF Len(DefaultOf(id)) > 0 THEN <<DefaultOf(id)>> ELSE <<>>

\* C20 as the spec states it: a column of the catalog whose value the
\* current record does not store yields a copy of the default value of the
\* catalog when that is not empty, None otherwise, and never an error.
C20_DefaultWhenNotStored ==
    (col.op = "get_column_mv" /\ col.row # 0 /\ NotStored(col.row, col.column)) =>
        (col.res = "ok" /\ col.val = DefaultOrNone(col.column))

\* C20: a variable or tagged column of the catalog whose value the current
\* record does not store yields a copy of the default value of the catalog
\* when that is not empty, None otherwise; a fixed column above the last
\* fixed column of the record yields None, whatever its default value;
\* neither is an error.
C20_DefaultWhenNotStoredUnlessFixed ==
    (col.op = "get_column_mv" /\ col.row # 0 /\ NotStored(col.row, col.column)) =>
        /\ col.res = "ok"
        /\ col.val = IF col.column <= 127 THEN <<>> ELSE DefaultOrNone(col.column)

\* a tagged column without an entry returned the default of the catalog
C20_Witness ==
    /\ col.op = "get_column_mv"
    /\ col.row = 1
    /\ col.column = 256
    /\ NotStored(1, 256)
    /\ StoredEntry(1, 257) # <<>>
    /\ DefaultOf(256) # <<>>
    /\ col.val = <<DefaultOf(256)>>

\* ------------------------------------------------------------------------
\* SpecCatalog: load calls on the path of one file, for every catalog
\* ------------------------------------------------------------------------
\* the entries a data tag of the catalog holds: a table, a column, an
\* index, the long-value tree of page 21 or of page 22, and a table and a
\* column on defunct tags
CatalogAlphabet ==
    { CatalogEntry("Table", FALSE, 20), CatalogEntry("Column", FALSE, 0),
      CatalogEntry("Index", FALSE, 0), CatalogEntry("LongValue", FALSE, 21),
      CatalogEntry("LongValue", FALSE, 22), CatalogEntry("Table", TRUE, 20),
      CatalogEntry("Column", TRUE, 0) }

\* the catalogs of up to 4 entries
CatalogItemSeqs == UNION { [1..n -> CatalogAlphabet] : n \in 0..4 }

CatalogFiles ==
    { [primary |-> GoodHeader(17, 4096), mirror |-> GoodHeader(17, 4096),
       page_size |-> 4096, npages |-> NumFilePages,
       catalog |-> OneLeaf({IS_ROOT, IS_LEAF}, it)] :
        it \in CatalogItemSeqs }

InitCatalog ==
    /\ file \in CatalogFiles
    /\ parser = init(CacheCapacity)
    /\ load_ret = NoLoad
    /\ handles = <<>>
    /\ reader = <<>>
    /\ rd = NoRead
    /\ passes = PassesOff
    /\ pages = <<>>
    /\ fdp = 0
    /\ overflow_checks = "unknown"
    /\ current_page = <<>>
    /\ page_tag_index = 0
    /\ ret = NoCall
    /\ fwd = Idle
    /\ bwd = Idle
    /\ IdleColumn

\* parser.load(dbpath), again and again on the same path
NextCatalog == Load(file)

SpecCatalog == InitCatalog /\ [][NextCatalog]_vars

\* the places of the live entries of a type in the catalog, in order
LivePlaces(items, cat_type) ==
    SelectSeq([i \in DOMAIN items |-> i],
              LAMBDA i : ~items[i].defunct /\ items[i].cat_type = cat_type)

\* the place of the first live Table entry after place p, or the end
NextTablePlace(items, p) ==
    IF \E i \in DOMAIN items : i > p /\ ~items[i].defunct /\ items[i].cat_type = "Table"
    THEN CHOOSE i \in DOMAIN items :
            /\ i > p /\ ~items[i].defunct /\ items[i].cat_type = "Table"
            /\ \A k \in (p + 1)..(i - 1) : items[k].defunct \/ items[k].cat_type # "Table"
    ELSE Len(items) + 1

\* the live entries of a type after the Table entry at place p and before
\* the next Table entry
SpanPlaces(items, p, cat_type) ==
    SelectSeq(LivePlaces(items, cat_type),
              LAMBDA i : i > p /\ i < NextTablePlace(items, p))

\* the table definitions the last load added to the parser
LoadedDefs ==
    [k \in 1..(Len(parser.tables) - Len(load_ret.before.tables)) |->
        parser.tables[Len(load_ret.before.tables) + k].cat]

\* C14: load_catalog returns one table definition per live Table entry, in
\* the order of the catalog, and the columns of each are the live Column
\* entries after its Table entry and before the next Table entry, in
\* order: no Column entry goes to a table whose Table entry comes after it.
C14_ColumnsOfTheirTable ==
    (load_ret.op = "load" /\ load_ret.res = "ok") =>
        /\ Len(LoadedDefs) = Len(LivePlaces(file.catalog.items, "Table"))
        /\ \A k \in DOMAIN LoadedDefs :
              /\ LoadedDefs[k].table[1].name = LivePlaces(file.catalog.items, "Table")[k]
              /\ [j \in DOMAIN LoadedDefs[k].columns |-> LoadedDefs[k].columns[j].name]
                    = SpanPlaces(file.catalog.items,
                                 LivePlaces(file.catalog.items, "Table")[k], "Column")

\* C15: when the entries after the Table entry of a table and before the
\* next Table entry hold one or more LongValue entries, the load succeeds
\* and the long-value tree of the table is the father data page of the
\* first of them, whatever LongValue entries follow it.
C15_FirstLongValueOfTheSpan ==
    (load_ret.op = "load" /\ load_ret.open.res = "ok") =>
        \A k \in DOMAIN LivePlaces(file.catalog.items, "Table") :
            SpanPlaces(file.catalog.items,
                       LivePlaces(file.catalog.items, "Table")[k], "LongValue") # <<>>
            => /\ load_ret.res = "ok"
               /\ LoadedDefs[k].long_value # <<>>
               /\ LoadedDefs[k].long_value[1].father_data_page_number
                     = file.catalog.items[
                           SpanPlaces(file.catalog.items,
                                      LivePlaces(file.catalog.items, "Table")[k],
                                      "LongValue")[1]].father_data_page_number

\* C30: after any sequence of load calls on one parser, get_tables lists
\* the names of the tables of the file of the most recent successful load,
\* one name per live Table entry of its catalog and no name of a file
\* loaded before it.
C30_TablesOfTheLastLoadedFile ==
    (load_ret.op = "load" /\ load_ret.res = "ok") =>
        get_tables(parser) = LivePlaces(file.catalog.items, "Table")

\* ------------------------------------------------------------------------
\* SpecLongValue: load_lv_data on the long-value segments of a table
\* ------------------------------------------------------------------------
\* the segments an LV_tags entry describes: of key 5 or 6, at segment offset
\* 0, 1 or 2, of 0, 1 or 2 bytes, each at its own place in the file
LvSegments ==
    { [key |-> k, seg_offset |-> o, size |-> z, offset |-> 100 * k + 10 * o + z] :
        k \in {5, 6}, o \in 0..2, z \in 0..2 }

\* the segments of a table, in the order load_lv_metadata met them
LvIndexes == UNION { [1..n -> LvSegments] : n \in 0..3 }

InitLongValue ==
    /\ lv_tags \in LvIndexes
    /\ leaf = NoLeaf
    /\ tbl_def = <<>>
    /\ row = 0
    /\ lls = LastLoadStateDefault
    /\ col = NoColumnCall
    /\ IdleOthers

\* load_lv_data(reader, lv_tags, long_value_key)
LoadLvData(long_value_key) ==
    /\ \E l \in { load_lv_data(lv_tags, long_value_key) } :
          col' = [op |-> "load_lv_data", key |-> long_value_key, res |-> l.res,
                  val |-> l.data]
    /\ UNCHANGED <<leaf, tbl_def, lv_tags, row, lls>>
    /\ UNCHANGED <<cursor_vars, pager_vars, load_vars>>

NextLongValue == \E long_value_key \in {5, 6, 7} : LoadLvData(long_value_key)

SpecLongValue == InitLongValue /\ [][NextLongValue]_vars

\* the places of the segments of a key
SegmentsOf(tags, k) == { i \in DOMAIN tags : tags[i].key = k }

\* the positions of the value segment i holds
RangeOf(tags, i) == tags[i].seg_offset .. (tags[i].seg_offset + tags[i].size - 1)

RECURSIVE SumOfSizes(_, _, _)
SumOfSizes(tags, k, i) ==
    IF i = 0 THEN 0
    ELSE SumOfSizes(tags, k, i - 1) + (IF tags[i].key = k THEN tags[i].size ELSE 0)

\* the segments of key k are not empty, do not overlap, and cover the
\* positions from 0 up to the sum of their sizes
IsPartition(tags, k) ==
    /\ SegmentsOf(tags, k) # {}
    /\ \A i \in SegmentsOf(tags, k) : tags[i].size > 0
    /\ \A i, j \in SegmentsOf(tags, k) :
          i # j => RangeOf(tags, i) \cap RangeOf(tags, j) = {}
    /\ UNION { RangeOf(tags, i) : i \in SegmentsOf(tags, k) }
          = 0 .. (SumOfSizes(tags, k, Len(tags)) - 1)

\* the bytes of the segments of key k in the order of their offsets
InOffsetOrder(tags, k) ==
    [p \in 1..SumOfSizes(tags, k, Len(tags)) |->
        LET i == CHOOSE x \in SegmentsOf(tags, k) : (p - 1) \in RangeOf(tags, x)
        IN tags[i].offset + (p - 1 - tags[i].seg_offset)]

\* C16: for a key whose segments have offsets that partition [0, total),
\* load_lv_data returns their bytes in the order of their offsets, total of
\* them, the sum of the sizes, in whatever order the index holds the
\* segments; for a key of no segment it fails: the long value is not found.
C16_SegmentsInOffsetOrder ==
    col.op = "load_lv_data" =>
        /\ IsPartition(lv_tags, col.key) =>
              /\ col.res = "ok"
              /\ col.val = InOffsetOrder(lv_tags, col.key)
              /\ Len(col.val) = SumOfSizes(lv_tags, col.key, Len(lv_tags))
        /\ SegmentsOf(lv_tags, col.key) = {} => col.res = "err"

\* three segments of the key, the last of the value first in the index
C16_Witness ==
    /\ col.op = "load_lv_data"
    /\ col.res = "ok"
    /\ Len(col.val) = 3
    /\ Len(lv_tags) = 3
    /\ IsPartition(lv_tags, col.key)
    /\ lv_tags[1].seg_offset = 2
    /\ lv_tags[2].seg_offset = 1
    /\ col.val = <<lv_tags[3].offset, lv_tags[2].offset, lv_tags[1].offset>>

\* C26: load_lv_data returns, a value or an error, for every index and every
\* key: the scan of the index never goes on forever.
C26_LoadLvDataTerminates ==
    col.op = "load_lv_data" => col.res \in {"ok", "err"}


\* ------------------------------------------------------------------------
\* SpecSiblings: the cursor on a chain whose sibling links disagree
\* ------------------------------------------------------------------------
\* the values a leaf's previous_page can hold besides the leaf before it:
\* an earlier leaf, the branch page above the chain, a page past the file
WrongPrevious(chain, b) ==
    ((1..(b - 2)) \cup {Len(chain) + 1, Len(chain) + 2}) \ {b - 1}

\* the tree of TreePages with the previous_page of leaf b set to w
SiblingPages(chain, b, w) ==
    [p \in 1..(Len(chain) + 1) |->
        IF p = b THEN [TreePages(chain, FALSE)[p] EXCEPT !.previous_page = w]
                 ELSE TreePages(chain, FALSE)[p]]

InitSiblings ==
    /\ \E chain \in LeafChains :
          /\ Len(chain) >= 2
          /\ \E b \in 2..Len(chain) :
                \E w \in WrongPrevious(chain, b) \cup {b - 1} :
                   pages = SiblingPages(chain, b, w)
          /\ fdp = Len(chain) + 1
    /\ overflow_checks = "unknown"
    /\ current_page = <<>>
    /\ page_tag_index = 0
    /\ ret = NoCall
    /\ fwd = Idle
    /\ bwd = Idle
    /\ file = NoFile
    /\ reader = <<>>
    /\ rd = NoRead
    /\ passes = PassesOff
    /\ parser = NoParser
    /\ load_ret = NoLoad
    /\ handles = <<>>
    /\ IdleColumn

SpecSiblings == InitSiblings /\ [][NextCursor]_vars

\* a MoveNext that leaves page A for B = A.next_page, or a MovePrevious that
\* leaves A for B = A.previous_page, and returns true: the cursor is on a
\* row of B and the page visited just before B is A
CrossesTo(a, crow, r, b) ==
    /\ r.op = "move_row" /\ r.crow = crow /\ r.val = "true"
    /\ a # <<>> /\ b # <<>>
    /\ b[1].page_number # a[1].page_number
    /\ \/ crow = ESE_MoveNext /\ b[1].page_number = a[1].next_page
       \/ crow = ESE_MovePrevious /\ b[1].page_number = a[1].previous_page

\* B's previous_page is set and is not the page visited before B
PreviousPageDisagrees(a, b) ==
    b[1].previous_page # 0 /\ b[1].previous_page # a[1].page_number

\* C17: when a move crosses from leaf A to B = A.next_page (or to
\* A.previous_page moving backward) and B's previous_page is non-zero and is
\* not the page visited just before B, the cursor is not positioned on a row
\* of B.
C17_PreviousPageValidated ==
    [][\A crow \in {ESE_MoveNext, ESE_MovePrevious} :
          CrossesTo(current_page, crow, ret', current_page')
             => ~PreviousPageDisagrees(current_page, current_page')]_vars


\* ------------------------------------------------------------------------
\* SpecLinear: get_column and get_column_mv on a file of the Linear format
\* ------------------------------------------------------------------------
\* format revisions of the legacy format (reader.rs 557); a primary header
\* of revision 0 takes the revision of the backup (reader.rs 62-63)
LinearRevisions == 0..2

\* load_db_file_header (reader.rs 60-82) returns the header of such a file:
\* the revisions of the two headers agree and the version is 0x620. The
\* tagged part of a record is never read under this format (reader.rs
\* 634-636); the rows carry the bytes of EncodeRecord.
InitLinear ==
    /\ \E defaults \in BOOLEAN, d \in Descs, rev \in LinearRevisions :
          /\ tbl_def = Columns(defaults)
          /\ leaf = Leaf(Columns(defaults), d, Format(rev, FALSE), ColumnLvTags)
    /\ lv_tags = ColumnLvTags
    /\ row = 0
    /\ lls = LastLoadStateDefault
    /\ col = NoColumnCall
    /\ IdleOthers

SpecLinear == InitLinear /\ [][NextColumn]_vars

\* the last call read a tagged column of a row
ReadTagged == col.op = "get_column_mv" /\ col.row # 0 /\ col.column >= 256

\* C21: on a file of format version 0x620 and revision <= 2 a read of a
\* tagged column never returns a value or 'empty': it fails.
C21_LinearTaggedUnimplemented ==
    (ReadTagged /\ tagged_data_types_format(leaf.format) = "Linear")
        => col.res = "err"


\* ------------------------------------------------------------------------
\* load_lv_tag and load_lv_metadata: reader.rs 793-971
\* ------------------------------------------------------------------------
IS_LONG_VALUE == "IS_LONG_VALUE"

\* A data tag of a long-value leaf: its local page key of key_size bytes
\* (the key of the long value, then, in a key of 8 bytes, the offset of the
\* segment) and data_size bytes of data after the key. Keys are not
\* compressed (no FLAG_HAS_COMMON_KEY_SIZE) and hold 4 or 8 bytes.
LvTag(defunct, key_size, key, seg_offset, data_size) ==
    [flags |-> IF defunct THEN {FLAG_IS_DEFUNCT} ELSE {}, child |-> 0,
     key_size |-> key_size, key |-> key, seg_offset |-> seg_offset,
     data_size |-> data_size]

\* the place in the file of the data of tag i of page pg
LvDataOffset(pg, i) == 100 * pg.page_number + i

\* load_lv_tag: <<>> is Ok(None), <<t>> is Ok(Some(t))
load_lv_tag(pg, i) ==
    IF TagAt(pg, i).data_size = 8
    THEN \* reader.rs 831-841: "page_tags with skey & total_size only"
         <<>>
    ELSE << [key |-> TagAt(pg, i).key,
             seg_offset |-> IF TagAt(pg, i).key_size = 8
                            THEN TagAt(pg, i).seg_offset ELSE 0,
             size |-> TagAt(pg, i).data_size,
             offset |-> LvDataOffset(pg, i)] >>

\* reader.rs 957-966: the tags of a root that is a leaf, from tag i on
RECURSIVE RootLeafTags(_, _)
RootLeafTags(pg, i) ==
    IF i >= NTags(pg) THEN <<>>
    ELSE load_lv_tag(pg, i) \o RootLeafTags(pg, i + 1)

\* reader.rs 938-951: the tags of a leaf of the chain, from tag i on
RECURSIVE LeafTags(_, _)
LeafTags(pg, i) ==
    IF i >= NTags(pg) THEN <<>>
    ELSE IF IsDefunct(pg, i) THEN LeafTags(pg, i + 1)
    ELSE load_lv_tag(pg, i) \o LeafTags(pg, i + 1)

\* what load_lv_metadata returns: [res, tags, visited], visited the pages
\* DbPage::new loaded, in the order of the loads
LvErr(visited) == [res |-> "err", tags |-> <<>>, visited |-> visited]

RECURSIVE load_lv_metadata(_, _)
RECURSIVE LvChain(_, _, _, _)
\* reader.rs 926-937, 952-953 on what the recursion returned
LvAppend(pg, page_number, res, r) ==
    IF r.res # "ok" THEN r
    ELSE LvChain(pg.next_page, page_number, res \o r.tags, r.visited)

\* reader.rs 917-954, page pg loaded
LvChainPage(pg, page_number, prev_page_number, res, visited) ==
    IF WrongPreviousPage(pg.previous_page, prev_page_number)
    THEN LvErr(visited)
    ELSE IF ~({IS_LEAF, IS_LONG_VALUE} \subseteq pg.flags)
    THEN \* maybe it's "Parent of leaf" page
         LvAppend(pg, page_number, res, load_lv_metadata(page_number, visited))
    ELSE LvChain(pg.next_page, page_number, res \o LeafTags(pg, 1), visited)

\* the while loop of reader.rs 916-954
LvChain(page_number, prev_page_number, res, visited) ==
    IF page_number = 0 THEN [res |-> "ok", tags |-> res, visited |-> visited]
    ELSE IF DbPageNew(page_number) = <<>> THEN LvErr(visited)
    ELSE LvChainPage(DbPageNew(page_number)[1], page_number, prev_page_number, res,
                     Append(visited, page_number))

\* load_lv_metadata(reader, page_number), after the loads of visited
load_lv_metadata(page_number, visited) ==
    IF DbPageNew(page_number) = <<>> THEN LvErr(visited)
    ELSE IF IS_LONG_VALUE \notin DbPageNew(page_number)[1].flags
    THEN LvErr(Append(visited, page_number))
    ELSE IF IS_LEAF \notin DbPageNew(page_number)[1].flags
    THEN IF NTags(DbPageNew(page_number)[1]) < 2
         THEN \* pg_tags[1]: index out of bounds
              [res |-> "panic", tags |-> <<>>, visited |-> Append(visited, page_number)]
         ELSE LvChain(TagAt(DbPageNew(page_number)[1], 1).child, page_number, <<>>,
                      Append(visited, page_number))
    ELSE [res |-> "ok", tags |-> RootLeafTags(DbPageNew(page_number)[1], 1),
          visited |-> Append(visited, page_number)]


\* ------------------------------------------------------------------------
\* SpecWalk: load_catalog and load_lv_metadata on the pages of a file
\* ------------------------------------------------------------------------
\* The data tags of a long-value leaf: a segment of 3 bytes, a defunct
\* segment, the tag of the long value itself (key of 4 bytes, 8 bytes of
\* reference count and total size), a segment of 8 bytes
LvLeafContents ==
    { <<>>,
      << LvTag(FALSE, 8, 5, 0, 3) >>,
      << LvTag(TRUE, 8, 5, 0, 3) >>,
      << LvTag(FALSE, 4, 5, 0, 8), LvTag(FALSE, 8, 5, 0, 3) >>,
      << LvTag(FALSE, 8, 5, 0, 3), LvTag(TRUE, 8, 5, 3, 3) >>,
      << LvTag(FALSE, 8, 5, 0, 8) >> }

LvLeafSeqs(n) == UNION { [1..k -> LvLeafContents] : k \in 1..n }

\* A long-value tree is [depth, groups]: at depth 1 the root is the leaf
\* groups[1][1]; at depth 2 the leaves groups[1] hang under the root; at
\* depth 3 the leaves groups[g] hang under parent g, the parents under the
\* root. MaxLeaves leaves at most.
LvTrees ==
    { [depth |-> 1, groups |-> << <<c>> >>] : c \in LvLeafContents }
    \cup { [depth |-> d, groups |-> <<ls>>] : d \in {2, 3}, ls \in LvLeafSeqs(MaxLeaves) }
    \cup { [depth |-> 3, groups |-> g] :
             g \in { x \in [1..2 -> LvLeafSeqs(MaxLeaves - 1)] :
                       Len(x[1]) + Len(x[2]) <= MaxLeaves } }

\* the root is page 1, the parents of depth 3 come next, then the leaves
LvParents(tr) == IF tr.depth = 3 THEN Len(tr.groups) ELSE 0

LvLeaves(tr) == Flatten(tr.groups)

LvLeafNumber(tr, j) == 1 + LvParents(tr) + j

\* the place among the leaves of the first leaf of group g
RECURSIVE FirstOfGroup(_, _)
FirstOfGroup(tr, g) ==
    IF g = 1 THEN 1 ELSE FirstOfGroup(tr, g - 1) + Len(tr.groups[g - 1])

ChildTag(c) == [flags |-> {}, child |-> c]

\* every leaf names the leaf before it and the leaf after it, across the
\* parents too
LvLeafPage(tr, j) ==
    [ page_number   |-> LvLeafNumber(tr, j),
      flags         |-> {IS_LEAF, IS_LONG_VALUE},
      previous_page |-> IF j = 1 THEN 0 ELSE LvLeafNumber(tr, j - 1),
      next_page     |-> IF j = Len(LvLeaves(tr)) THEN 0 ELSE LvLeafNumber(tr, j + 1),
      page_tags     |-> <<Tag0>> \o LvLeaves(tr)[j] ]

LvParentPage(tr, g) ==
    [ page_number   |-> 1 + g,
      flags         |-> {IS_PARENT, IS_LONG_VALUE},
      previous_page |-> IF g = 1 THEN 0 ELSE g,
      next_page     |-> IF g = Len(tr.groups) THEN 0 ELSE g + 2,
      page_tags     |-> <<Tag0>> \o
                        [i \in 1..Len(tr.groups[g]) |->
                            ChildTag(LvLeafNumber(tr, FirstOfGroup(tr, g) + i - 1))] ]

LvRootPage(tr) ==
    [ page_number   |-> 1,
      flags         |-> IF tr.depth = 1 THEN {IS_ROOT, IS_LEAF, IS_LONG_VALUE}
                        ELSE {IS_ROOT, IS_PARENT, IS_LONG_VALUE},
      previous_page |-> 0,
      next_page     |-> 0,
      page_tags     |-> <<Tag0>> \o
                        (IF tr.depth = 1 THEN tr.groups[1][1]
                         ELSE IF tr.depth = 2
                         THEN [j \in 1..Len(tr.groups[1]) |-> ChildTag(LvLeafNumber(tr, j))]
                         ELSE [g \in 1..Len(tr.groups) |-> ChildTag(1 + g)]) ]

LvPages(tr) ==
    IF tr.depth = 1 THEN <<LvRootPage(tr)>>
    ELSE [p \in 1..(1 + LvParents(tr) + Len(LvLeaves(tr))) |->
             IF p = 1 THEN LvRootPage(tr)
             ELSE IF p <= 1 + LvParents(tr) THEN LvParentPage(tr, p - 1)
             ELSE LvLeafPage(tr, p - 1 - LvParents(tr))]

\* the tree with the previous_page of page b set to w
LvRelinked(tr, b, w) == [LvPages(tr) EXCEPT ![b].previous_page = w]

\* the trees of the file: well formed, or one leaf with another previous_page
LvFiles ==
    { LvPages(tr) : tr \in LvTrees }
    \cup UNION { { LvRelinked(tr, LvLeafNumber(tr, j), w) :
                     j \in 1..Len(LvLeaves(tr)), w \in {0, 1, 9} } :
                   tr \in { t \in LvTrees : t.depth > 1 } }

\* two leaves under a root: well formed, and with a second leaf that names
\* a page that is not the first
TwoLeafTree ==
    [depth |-> 2, groups |-> << << << LvTag(FALSE, 8, 5, 0, 3) >>,
                                   << LvTag(FALSE, 8, 5, 3, 3) >> >> >>]

\* The catalogs: a root that is the one leaf, and a branch root over a chain
\* of one or two leaves (pages 5 and 6), each leaf with or without IS_LEAF
\* and with a previous_page of 0, of the page before it, or of another page
ChainItems == LiveEntries(<<"Table", "Column", "Table">>)

ChainCatalogs ==
    { Catalog({IS_ROOT, IS_LEAF}, ChainItems,
              << CatalogLeaf(CatalogPageNumber, {IS_ROOT, IS_LEAF}, p, Len(ChainItems)) >>) :
        p \in {0, 9} }
    \cup { Catalog({IS_ROOT, IS_PARENT}, ChainItems,
                   << CatalogLeaf(5, f, p, Len(ChainItems)) >>) :
             f \in {{IS_LEAF}, {IS_PARENT}}, p \in {0, CatalogPageNumber, 9} }
    \cup { Catalog({IS_ROOT, IS_PARENT}, ChainItems,
                   << CatalogLeaf(5, f1, p1, k), CatalogLeaf(6, f2, p2, Len(ChainItems)) >>) :
             f1 \in {{IS_LEAF}, {IS_PARENT}}, p1 \in {0, CatalogPageNumber, 9},
             f2 \in {{IS_LEAF}, {IS_PARENT}}, p2 \in {0, 5, 9},
             k \in 0..Len(ChainItems) }

ChainFile(c) ==
    [primary |-> GoodHeader(17, 4096), mirror |-> GoodHeader(17, 4096),
     page_size |-> 4096, npages |-> NumFilePages, catalog |-> c]

\* every catalog with one of the two-leaf trees, or every tree with the
\* catalog of one leaf; fdp is the root of the long-value tree
InitWalk ==
    /\ \/ /\ file \in { ChainFile(c) : c \in ChainCatalogs }
          /\ pages \in { LvPages(TwoLeafTree), LvRelinked(TwoLeafTree, 3, 9) }
       \/ /\ file = ChainFile(OneLeaf({IS_ROOT, IS_LEAF}, ChainItems))
          /\ pages \in LvFiles
    /\ fdp = 1
    /\ parser = init(CacheCapacity)
    /\ load_ret = NoLoad
    /\ handles = <<>>
    /\ reader = <<>>
    /\ rd = NoRead
    /\ passes = PassesOff
    /\ overflow_checks = "unknown"
    /\ current_page = <<>>
    /\ page_tag_index = 0
    /\ ret = NoCall
    /\ fwd = Idle
    /\ bwd = Idle
    /\ IdleColumn

\* t.lv_tags = load_lv_metadata(reader, father_data_page_number)?
LoadLvMetadata ==
    /\ \E r \in { load_lv_metadata(fdp, <<>>) } :
          /\ lv_tags' = IF r.res = "ok" THEN r.tags ELSE lv_tags
          /\ col' = [op |-> "load_lv_metadata", res |-> r.res, val |-> r.tags,
                     visited |-> r.visited]
    /\ UNCHANGED <<leaf, tbl_def, row, lls>>
    /\ UNCHANGED <<cursor_vars, pager_vars, load_vars>>

NextWalk ==
    \/ Load(file)
    \/ LoadLvMetadata

SpecWalk == InitWalk /\ [][NextWalk]_vars

\* a leaf of the catalog chain does not name the page visited before it, or
\* has no IS_LEAF
CatalogChainBroken(c) ==
    \E k \in DOMAIN c.leaves :
        \/ c.leaves[k].previous_page \notin
               {0, IF k = 1 THEN CatalogPageNumber ELSE c.leaves[k - 1].page_number}
        \/ IS_LEAF \notin c.leaves[k].flags

\* a leaf the walk loaded does not name the page loaded before it
LvChainBroken ==
    \E i \in 2..Len(col.visited) :
        /\ IS_LEAF \in pages[col.visited[i]].flags
        /\ pages[col.visited[i]].previous_page \notin {0, col.visited[i - 1]}

\* C23: a page of a leaf sibling chain whose previous_page is non-zero and
\* is not the page visited just before it makes load_catalog and
\* load_lv_metadata fail, with no table added and no index returned; so
\* does a page of the catalog chain without IS_LEAF.
C23_BrokenChainFailsTheLoad ==
    /\ (load_ret.op = "load" /\ load_ret.open.res = "ok"
           /\ CatalogChainBroken(file.catalog))
          => (load_ret.res = "err" /\ parser.tables = load_ret.before.tables)
    /\ (col.op = "load_lv_metadata" /\ LvChainBroken)
          => (col.res = "err" /\ col.val = <<>> /\ lv_tags = <<>>)

\* both walks failed at the second leaf of their chain
C23_Witness ==
    /\ load_ret.op = "load" /\ load_ret.open.res = "ok" /\ load_ret.res = "err"
    /\ Len(file.catalog.leaves) = 2
    /\ file.catalog.leaves[1] = CatalogLeaf(5, {IS_LEAF}, 0, 1)
    /\ file.catalog.leaves[2] = CatalogLeaf(6, {IS_LEAF}, 9, 3)
    /\ col.op = "load_lv_metadata" /\ col.res = "err"
    /\ col.visited = <<1, 2, 3>>
    /\ pages = LvRelinked(TwoLeafTree, 3, 9)

\* the pages are a well-formed long-value tree
WellFormedLvTree == \E tr \in LvTrees : pages = LvPages(tr)

\* the segments of the tree: the live data tags of its leaves that are not
\* the tag of a long value itself
LvSegmentTags ==
    { [key |-> TagAt(pages[p], i).key, seg_offset |-> TagAt(pages[p], i).seg_offset,
       size |-> TagAt(pages[p], i).data_size, offset |-> LvDataOffset(pages[p], i)] :
        <<p, i>> \in { x \in (DOMAIN pages) \X (1..MaxTags) :
                         /\ IS_LEAF \in pages[x[1]].flags
                         /\ x[2] < NTags(pages[x[1]])
                         /\ ~IsDefunct(pages[x[1]], x[2])
                         /\ TagAt(pages[x[1]], x[2]).key_size = 8 } }

\* C24: on a well-formed long-value tree of any depth load_lv_metadata
\* succeeds and its index holds every non-defunct leaf tag that is a
\* segment exactly once.
C24_EverySegmentOnce ==
    (col.op = "load_lv_metadata" /\ WellFormedLvTree) =>
        /\ col.res = "ok"
        /\ Len(col.val) = Cardinality(LvSegmentTags)
        /\ SeqElems(col.val) = LvSegmentTags

\* C25: the index load_lv_metadata returns holds no segment of a tag 0 or
\* of a defunct tag, under a leaf root and under branch pages.
C25_NoDefunctSegment ==
    (col.op = "load_lv_metadata" /\ col.res = "ok") =>
        \A k \in DOMAIN col.val :
            /\ col.val[k].offset % 100 # 0
            /\ ~IsDefunct(pages[col.val[k].offset \div 100], col.val[k].offset % 100)


\* ------------------------------------------------------------------------
\* SpecHandles: the handles of the open_table calls on one parser
\* ------------------------------------------------------------------------
\* A file of two tables: the first, with a long-value tree, on a branch
\* root over the leaves of chain; the second on a root that is a leaf.
HandleChains == { << <<FALSE, FALSE>> >>, << <<FALSE>>, <<FALSE>> >> }

RootPage(page_number, flags, tags) ==
    [ page_number   |-> page_number,
      flags         |-> flags,
      previous_page |-> 0,
      next_page     |-> 0,
      page_tags     |-> <<Tag0>> \o tags ]

HandlePages(chain) ==
    TreePages(chain, FALSE)
        \o << RootPage(Len(chain) + 2, {IS_ROOT, IS_LEAF}, <<Tag0, Tag0>>),
              RootPage(Len(chain) + 3, {IS_ROOT, IS_LEAF, IS_LONG_VALUE},
                       << LvTag(FALSE, 8, 5, 0, 3) >>) >>

HandleFile(chain) ==
    ChainFile(OneLeaf({IS_ROOT, IS_LEAF},
                      << CatalogEntry("Table", FALSE, Len(chain) + 1),
                         CatalogEntry("LongValue", FALSE, Len(chain) + 3),
                         CatalogEntry("Table", FALSE, Len(chain) + 2) >>))

\* the names open_table is called with: the two tables and one more
TableNames == {1, 3, 9}

InitHandles ==
    /\ \E chain \in HandleChains :
          /\ pages = HandlePages(chain)
          /\ file = HandleFile(chain)
    /\ parser = init(CacheCapacity)
    /\ load_ret = NoLoad
    /\ handles = <<>>
    /\ fdp = 0
    /\ overflow_checks = "unknown"
    /\ current_page = <<>>
    /\ page_tag_index = 0
    /\ ret = NoCall
    /\ fwd = Idle
    /\ bwd = Idle
    /\ reader = <<>>
    /\ rd = NoRead
    /\ passes = PassesOff
    /\ IdleColumn

\* get_table_by_name: the index of the first table of the name, -1 for Err
get_table_by_name(p, table) ==
    IF \E i \in DOMAIN p.tables : p.tables[i].cat.table[1].name = table
    THEN (CHOOSE i \in DOMAIN p.tables :
             /\ p.tables[i].cat.table[1].name = table
             /\ \A k \in 1..(i - 1) : p.tables[k].cat.table[1].name # table) - 1
    ELSE -1

\* get_table_by_id: self.tables[table_id]
get_table_by_id(p, table_id) == p.tables[table_id + 1]

\* the table value the moves work on, and the Table with what they left
TableValue(T) ==
    [father_data_page_number |-> T.cat.table[1].father_data_page_number,
     current_page |-> T.current_page, page_tag_index |-> T.page_tag_index]

Moved(T, t) ==
    [T EXCEPT !.current_page = t.current_page, !.page_tag_index = t.page_tag_index]

\* ese_parser.rs 235-239: the long-value index of the table, when it has a
\* long-value tree
OpenLvTags(T) ==
    IF T.cat.long_value = <<>> THEN [res |-> "ok", tags |-> T.lv_tags]
    ELSE load_lv_metadata(T.cat.long_value[1].father_data_page_number, <<>>)

HandleCall(op, handle, val) ==
    [op |-> op, handle |-> handle, crow |-> "none", val |-> val, row |-> <<>>,
     after_false |-> FALSE]

\* parser.open_table(table)
OpenByName(table) ==
    /\ Running
    /\ Len(handles) < MaxHandles
    /\ \E index \in { get_table_by_name(parser, table) } :
         IF index < 0
         THEN /\ ret' = HandleCall("open_table", index, "err")
              /\ UNCHANGED <<parser, handles>>
         ELSE \E lv \in { OpenLvTags(get_table_by_id(parser, index)) } :
              IF lv.res # "ok"
              THEN /\ ret' = HandleCall("open_table", index, lv.res)
                   /\ UNCHANGED <<parser, handles>>
              ELSE \E r \in { open_table(TableValue(get_table_by_id(parser, index)),
                                         TRUE) } :
                   /\ parser' = [parser EXCEPT !.tables[index + 1] =
                                    Moved([@ EXCEPT !.lv_tags = lv.tags], r.t)]
                   /\ handles' = IF r.res = "ok" THEN Append(handles, index)
                                 ELSE handles
                   /\ ret' = HandleCall("open_table", index, r.res)
    /\ UNCHANGED <<pages, fdp, overflow_checks, current_page, page_tag_index, fwd, bwd>>
    /\ UNCHANGED load_ret
    /\ UNCHANGED pager_vars
    /\ UNCHANGED column_vars

\* parser.move_row(handles[k], crow)
MoveByHandle(k, crow) ==
    /\ Running
    /\ \E checks \in Profiles(TableValue(get_table_by_id(parser, handles[k])), crow) :
       \E r \in { move_row(TableValue(get_table_by_id(parser, handles[k])),
                           crow, checks) } :
         /\ parser' = [parser EXCEPT !.tables[handles[k] + 1] = Moved(@, r.t)]
         /\ ret' = [HandleCall("move_row", handles[k], r.res) EXCEPT !.crow = crow]
         /\ overflow_checks' =
               IF Overflows(TableValue(get_table_by_id(parser, handles[k])), crow)
               THEN (IF checks THEN "on" ELSE "off")
               ELSE overflow_checks
    /\ UNCHANGED <<pages, fdp, current_page, page_tag_index, fwd, bwd>>
    /\ UNCHANGED <<load_ret, handles>>
    /\ UNCHANGED pager_vars
    /\ UNCHANGED column_vars

\* parser.get_column(handles[k], ..): the row the record is read from
GetByHandle(k) ==
    /\ Running
    /\ \E r \in { get_column_dyn_helper(TableValue(get_table_by_id(parser, handles[k]))) } :
         ret' = [HandleCall("get_column", handles[k], r.res) EXCEPT !.row = r.row]
    /\ UNCHANGED <<pages, fdp, overflow_checks, current_page, page_tag_index, fwd, bwd>>
    /\ UNCHANGED load_vars
    /\ UNCHANGED pager_vars
    /\ UNCHANGED column_vars

\* parser.close_table(handles[k])
CloseByHandle(k) ==
    /\ Running
    /\ parser' = [parser EXCEPT !.tables[handles[k] + 1].lv_tags = <<>>]
    /\ ret' = HandleCall("close_table", handles[k], "true")
    /\ UNCHANGED <<pages, fdp, overflow_checks, current_page, page_tag_index, fwd, bwd>>
    /\ UNCHANGED <<load_ret, handles>>
    /\ UNCHANGED pager_vars
    /\ UNCHANGED column_vars

NextHandles ==
    \/ Load(file)
    \/ \E table \in TableNames : OpenByName(table)
    \/ \E k \in DOMAIN handles, crow \in Crows : MoveByHandle(k, crow)
    \/ \E k \in DOMAIN handles : GetByHandle(k)
    \/ \E k \in DOMAIN handles : CloseByHandle(k)

SpecHandles == InitHandles /\ [][NextHandles]_vars

\* what the handle of the k-th open_table call shows: the page and the tag
\* of its cursor and the long-value index of its table
Observed(k) ==
    [current_page |-> get_table_by_id(parser, handles[k]).current_page,
     page_tag_index |-> get_table_by_id(parser, handles[k]).page_tag_index,
     lv_tags |-> get_table_by_id(parser, handles[k]).lv_tags]

\* a move_row, get_column or close_table call through handle k
ActsThrough(k) ==
    \/ \E crow \in Crows : MoveByHandle(k, crow)
    \/ GetByHandle(k)
    \/ CloseByHandle(k)

\* C29: a move_row, get_column or close_table call through the handle of
\* one open_table call leaves the page, the tag index and the long-value
\* index seen through the handle of every other open_table call as they
\* were, handles of the same table included.
C29_HandlesAreIndependent ==
    [][\A k \in DOMAIN handles :
          ActsThrough(k) =>
              \A j \in DOMAIN handles \ {k} : Observed(j)' = Observed(j)]_vars

====
